---- MODULE Spec2Model ----
(***************************************************************************)
(* Scan orchestration engine of miranda (Convex backend).                  *)
(*                                                                         *)
(* Convex mutations and queries are transactions: each is one atomic step. *)
(* Convex actions (parseFeeds, processNextArticle, analyzeArticle,         *)
(* checkStalledScans, checkAndTriggerScan) are not: every runMutation they *)
(* make is a transaction of its own, and other functions interleave        *)
(* between two of them.  The scheduler holds durable function calls        *)
(* (ctx.scheduler.runAfter) that are dispatched in any order.              *)
(***************************************************************************)
EXTENDS Integers, Sequences, FiniteSets, Bags, TLC

\* ----------------------------------------------------------------- bounds
\* Two profiles.  Spec: the whole system over several scans, each of few
\* articles.  SpecScan: the whole system over one scan of more articles, with
\* parallel processors and the watchdog's re-launches.
MaxScans == 2              \* Spec: scan documents ever inserted
FewGuids == 1              \* Spec: distinct guids the feeds can yield
FewBatch == 1              \* Spec: items one ingestion collects
FewParallelism == 1        \* Spec: largest parallelism a caller passes
FewWatchdogLaunches == 0   \* Spec: processors the watchdog re-launches
OneScan == 1               \* SpecScan: scan documents ever inserted
MaxGuids == 2              \* SpecScan: distinct guids the feeds can yield
MaxBatch == 2              \* SpecScan: items one ingestion collects
MaxParallelism == 2        \* SpecScan: largest parallelism a caller passes
MaxWatchdogLaunches == 1   \* SpecScan: processors the watchdog re-launches
MaxCompletedAtWrites == 2  \* assignments of completedAt told apart
MaxQueueDocs == 2          \* SpecQueue: queue documents ever inserted
MaxDied == 1               \* SpecStall: actions of a scan that end early
MaxFeeds == 2              \* SpecFeeds: feed documents
MaxItems == 2              \* SpecFeeds: items of one fetched feed
MaxAlike == 9              \* SpecExtract: leading items of the same kind
MaxOthers == 3             \* SpecExtract: items after them, of any kind
MaxNew == 6                \* SpecLaunch: articles parseFeeds inserted
MaxParallelismArg == 4     \* SpecLaunch: the parallelism argument
MaxRepairLaunches == 2     \* SpecRepair: processors the watchdog launches
MaxAutoScans == 3          \* SpecAuto: scan documents ever inserted

Wide == [scans |-> MaxScans, guids |-> FewGuids, batch |-> FewBatch,
         parallelism |-> FewParallelism, launches |-> FewWatchdogLaunches]
Deep == [scans |-> OneScan, guids |-> MaxGuids, batch |-> MaxBatch,
         parallelism |-> MaxParallelism, launches |-> MaxWatchdogLaunches]

\* ------------------------------------------------------ program constants
NoArticle == 0                \* popNextArticle's null
NoScan == 0                   \* getRunningScan's null / a missing document
DEFAULT_DAYS_BACK == 7
UNDATED_ITEM_FALLBACK_LIMIT == 10

INIT_TIMEOUT_MINUTES == 5     \* watchdog: stuck in initializing
RUNNING_TIMEOUT_MINUTES == 30 \* watchdog: running too long
DEFAULT_PARALLELISM == 3      \* autoScan.parallelism ?? 3
DEFAULT_INTERVAL_MINUTES == 240 \* autoScan.intervalMinutes ?? 240

\* enums of types.ts
ScanStatus == [INITIALIZING |-> "initializing", RUNNING |-> "running",
               COMPLETED |-> "completed"]
ScanQueueStatus == [AWAITING |-> "awaiting", PROCESSING |-> "processing",
                    COMPLETED |-> "completed"]
ArticleStatus == [PENDING |-> "pending", PROCESSING |-> "processing",
                  COMPLETED |-> "completed", FAILED |-> "failed"]

\* What the clock can have advanced by when a handler reads it (new Date(),
\* Date.now()): the minutes since a scan's _creationTime at the marks the
\* watchdog's two comparisons tell apart, and the minutes since
\* autoScan.lastRunAt on either side of the interval.
ElapsedMarks == {0, INIT_TIMEOUT_MINUTES, INIT_TIMEOUT_MINUTES + 1,
                 RUNNING_TIMEOUT_MINUTES, RUNNING_TIMEOUT_MINUTES + 1}
IntervalMarks == {DEFAULT_INTERVAL_MINUTES - 1, DEFAULT_INTERVAL_MINUTES}

VARIABLES
    scans,        \* table 'scans': sequence of documents, _id = index
    scanQueue,    \* table 'scanQueue': sequence of documents, _id = index
    articles,     \* table 'articles': sequence of documents, _id = index
    settings,     \* table 'settings', the autoScan.* keys
    rss,          \* table 'rss': the feeds, _id = index
    scheduled,    \* the scheduler: bag of function calls not yet dispatched
    running,      \* bag of action invocations between two of their steps
    watchdog,     \* checkStalledScans: the scans still to visit in its loop
    autoScan,     \* checkAndTriggerScan: its position
    history       \* per scan: list given to createQueue, ids popped, cancelled

vars == <<scans, scanQueue, articles, settings, rss, scheduled, running, watchdog,
          autoScan, history>>

\* ---------------------------------------------------------------- helpers
Min(a, b) == IF a < b THEN a ELSE b

Range(f) == {f[i] : i \in DOMAIN f}

Put(bag, e) == bag (+) SetToBag({e})
Take(bag, e) == bag (-) SetToBag({e})

Tail1(s) == IF s = <<>> THEN <<>> ELSE Tail(s)

IsSuffix(s, t) ==
    /\ Len(s) <= Len(t)
    /\ s = SubSeq(t, Len(t) - Len(s) + 1, Len(t))

\* A scheduled call: analyzeArticle carries its articleId, parseFeeds its
\* parallelism argument.
Task(fn, scanId, articleId, parallelism) ==
    [fn |-> fn, scanId |-> scanId, articleId |-> articleId,
     parallelism |-> parallelism]

parseFeedsTask(scanId, parallelism) ==
    Task("parseFeeds", scanId, NoArticle, parallelism)
processNextArticleTask(scanId) ==
    Task("processNextArticle", scanId, NoArticle, 0)
analyzeArticleTask(scanId, articleId) ==
    Task("analyzeArticle", scanId, articleId, 0)

\* An action invocation between two steps, with its local variables.
Invocation(fn, scanId, pc, articleIds, nextArticleId, parallelism) ==
    [fn |-> fn, scanId |-> scanId, pc |-> pc, articleIds |-> articleIds,
     nextArticleId |-> nextArticleId, parallelism |-> parallelism]

NoHistory == [created |-> <<>>, popped |-> <<>>, cancelled |-> FALSE,
              watchdogLaunches |-> 0, died |-> <<>>]

\* ------------------------------------------------------------ table scans
\* A scan document.  completedAt counts the assignments of the field (0: the
\* field is unset), up to MaxCompletedAtWrites.  Optional numbers are
\* sequences of length <= 1.
setCompletedAt(completedAt) == Min(completedAt + 1, MaxCompletedAtWrites)

NewScan ==
    [status |-> ScanStatus.INITIALIZING,
     totalArticles |-> <<>>, processedArticles |-> <<>>, error |-> "",
     completedAt |-> 0]

ScanIds(S) == 1..Len(S)

IsCompleted(status) == status = ScanStatus.COMPLETED

\* getRunningScans (watchdog): every scan whose status is not completed.
getRunningScans(S) == {s \in ScanIds(S) : ~IsCompleted(S[s].status)}

\* Mutant: only a scan that is running counts, one that is initializing not.
getRunningScanOnlyRunning(S) ==
    LET runningScans == {s \in ScanIds(S) : S[s].status = ScanStatus.RUNNING}
    IN  IF runningScans # {}
        THEN CHOOSE s \in runningScans : \A r \in runningScans : s <= r
        ELSE NoScan

\* getRunningScan: the first of them, or null.
getRunningScan(S) ==
    LET runningScans == getRunningScans(S)
    IN  IF runningScans # {}
        THEN CHOOSE s \in runningScans : \A r \in runningScans : s <= r
        ELSE NoScan

\* updateScanStatus(scanId, status, error?)
updateScanStatus(S, scanId, status, error) ==
    [S EXCEPT ![scanId] =
        [@ EXCEPT !.status = status,
                  !.error = IF error # "" THEN error ELSE @,
                  !.completedAt = IF IsCompleted(status)
                                   THEN setCompletedAt(@) ELSE @]]

\* updateScanProgress(scanId, status, totalArticles, processedArticles), as
\* parseFeeds calls it (all three given).
updateScanProgress(S, scanId, status, totalArticles, processedArticles) ==
    [S EXCEPT ![scanId] =
        [@ EXCEPT !.status = status,
                  !.completedAt = IF IsCompleted(status)
                                   THEN setCompletedAt(@) ELSE @,
                  !.totalArticles = <<totalArticles>>,
                  !.processedArticles = <<processedArticles>>]]

\* ------------------------------------------------------- table scanQueue
QueueIds(Q) == 1..Len(Q)

\* Mutant: the queue is inserted awaiting.
createQueueAwaiting(Q, scanId, articleIds) ==
    Append(Q, [scanId |-> scanId, list |-> articleIds,
               status |-> ScanQueueStatus.AWAITING])

\* createQueue(scanId, articleIds): inserts a queue document.
createQueue(Q, scanId, articleIds) ==
    Append(Q, [scanId |-> scanId, list |-> articleIds,
               status |-> ScanQueueStatus.PROCESSING])

\* getQueueByScanId: index byScanId, .first(); 0 when there is none.
getQueueByScanId(Q, scanId) ==
    LET found == {q \in QueueIds(Q) : Q[q].scanId = scanId}
    IN  IF found # {} THEN CHOOSE q \in found : \A r \in found : q <= r
        ELSE 0

\* Mutant: the front id is returned and the list is left as it was.
popNextArticleKeepsList(Q, scanId) ==
    LET q == getQueueByScanId(Q, scanId)
    IN  IF q = 0 THEN [scanQueue |-> Q, result |-> NoArticle]
        ELSE IF Len(Q[q].list) = 0
        THEN [scanQueue |-> [Q EXCEPT ![q].status = ScanQueueStatus.COMPLETED],
              result |-> NoArticle]
        ELSE [scanQueue |-> [Q EXCEPT ![q].status = ScanQueueStatus.PROCESSING],
              result |-> Head(Q[q].list)]

\* Mutant: the last id of the list is popped with status completed, and the
\* patch leaves it in the list.
popNextArticleKeepsLast(Q, scanId) ==
    LET q == getQueueByScanId(Q, scanId)
    IN  IF q = 0 THEN [scanQueue |-> Q, result |-> NoArticle]
        ELSE IF Len(Q[q].list) = 0
        THEN [scanQueue |-> [Q EXCEPT ![q].status = ScanQueueStatus.COMPLETED],
              result |-> NoArticle]
        ELSE IF Len(Q[q].list) = 1
        THEN [scanQueue |-> [Q EXCEPT ![q].status = ScanQueueStatus.COMPLETED],
              result |-> Head(Q[q].list)]
        ELSE [scanQueue |-> [Q EXCEPT ![q].list = Tail(Q[q].list),
                                      ![q].status = ScanQueueStatus.PROCESSING],
              result |-> Head(Q[q].list)]

\* Mutant: the id is taken from the back of the list.
popNextArticleFromBack(Q, scanId) ==
    LET q == getQueueByScanId(Q, scanId)
    IN  IF q = 0 THEN [scanQueue |-> Q, result |-> NoArticle]
        ELSE IF Len(Q[q].list) = 0
        THEN [scanQueue |-> [Q EXCEPT ![q].status = ScanQueueStatus.COMPLETED],
              result |-> NoArticle]
        ELSE LET remainingList == SubSeq(Q[q].list, 1, Len(Q[q].list) - 1)
             IN  [scanQueue |->
                    [Q EXCEPT ![q].list = remainingList,
                              ![q].status =
                                  IF Len(remainingList) = 0
                                  THEN ScanQueueStatus.COMPLETED
                                  ELSE ScanQueueStatus.PROCESSING],
                  result |-> Q[q].list[Len(Q[q].list)]]

\* Mutant: a pop that takes an id always leaves the status processing.
popNextArticleNeverCompletes(Q, scanId) ==
    LET q == getQueueByScanId(Q, scanId)
    IN  IF q = 0 THEN [scanQueue |-> Q, result |-> NoArticle]
        ELSE IF Len(Q[q].list) = 0
        THEN [scanQueue |-> [Q EXCEPT ![q].status = ScanQueueStatus.COMPLETED],
              result |-> NoArticle]
        ELSE [scanQueue |-> [Q EXCEPT ![q].list = Tail(Q[q].list),
                                      ![q].status = ScanQueueStatus.PROCESSING],
              result |-> Head(Q[q].list)]

\* Mutant: the status test of the patch is inverted: completed while ids
\* remain, processing when the last one is taken.
popNextArticleCompletesEarly(Q, scanId) ==
    LET q == getQueueByScanId(Q, scanId)
    IN  IF q = 0 THEN [scanQueue |-> Q, result |-> NoArticle]
        ELSE IF Len(Q[q].list) = 0
        THEN [scanQueue |-> [Q EXCEPT ![q].status = ScanQueueStatus.COMPLETED],
              result |-> NoArticle]
        ELSE [scanQueue |->
                [Q EXCEPT ![q].list = Tail(Q[q].list),
                          ![q].status =
                              IF Len(Tail(Q[q].list)) = 0
                              THEN ScanQueueStatus.PROCESSING
                              ELSE ScanQueueStatus.COMPLETED],
              result |-> Head(Q[q].list)]

\* popNextArticle(scanId): the queue table after the call, and the result.
popNextArticle(Q, scanId) ==
    LET q == getQueueByScanId(Q, scanId)
    IN  IF q = 0 THEN [scanQueue |-> Q, result |-> NoArticle]
        ELSE IF Len(Q[q].list) = 0
        THEN [scanQueue |-> [Q EXCEPT ![q].status = ScanQueueStatus.COMPLETED],
              result |-> NoArticle]
        ELSE LET nextArticleId == Head(Q[q].list)
                 remainingList == Tail(Q[q].list)
             IN  [scanQueue |->
                    [Q EXCEPT ![q].list = remainingList,
                              ![q].status =
                                  IF Len(remainingList) = 0
                                  THEN ScanQueueStatus.COMPLETED
                                  ELSE ScanQueueStatus.PROCESSING],
                  result |-> nextArticleId]

\* updateQueueStatus(queueId, status)
updateQueueStatus(Q, queueId, status) == [Q EXCEPT ![queueId].status = status]

\* Mutant: the queue is marked completed and keeps its list.
cancelQueueKeepsList(Q, scanId) ==
    LET q == getQueueByScanId(Q, scanId)
    IN  IF q # 0
        THEN [Q EXCEPT ![q].status = ScanQueueStatus.COMPLETED]
        ELSE Q

\* cancelQueue(scanId)
cancelQueue(Q, scanId) ==
    LET q == getQueueByScanId(Q, scanId)
    IN  IF q # 0
        THEN [Q EXCEPT ![q].status = ScanQueueStatus.COMPLETED,
                       ![q].list = <<>>]
        ELSE Q

\* -------------------------------------------------------- table articles
ArticleIds(A) == 1..Len(A)

\* bulkCreateArticles(articles): the loop over the batch (here its guids);
\* an item whose guid the byGuid index already holds is skipped, the others
\* are inserted pending.  Yields the table and the new ids, in batch order.
\* Of an article document the model keeps the guid, the status and whether
\* extractedContent and score are set; taken and marked count the
\* processNextArticle invocations that popped its id and that set it to
\* processing.
RECURSIVE bulkCreateLoop(_, _, _)
bulkCreateLoop(A, items, newArticleIds) ==
    IF items = <<>> THEN [articles |-> A, newArticleIds |-> newArticleIds]
    ELSE LET article == Head(items)
             existingArticle == {a \in ArticleIds(A) : A[a].guid = article}
         IN  IF existingArticle # {}
             THEN bulkCreateLoop(A, Tail(items), newArticleIds)
             ELSE bulkCreateLoop(
                      Append(A, [guid |-> article,
                                 status |-> ArticleStatus.PENDING,
                                 extractedContent |-> FALSE, score |-> FALSE,
                                 taken |-> 0, marked |-> 0]),
                      Tail(items),
                      Append(newArticleIds, Len(A) + 1))

\* Mutant: every item is inserted, the byGuid index is not consulted.
bulkCreateArticlesNoLookup(A, items) ==
    [articles |-> A \o [i \in 1..Len(items) |->
                           [guid |-> items[i],
                            status |-> ArticleStatus.PENDING,
                            extractedContent |-> FALSE, score |-> FALSE,
                            taken |-> 0, marked |-> 0]],
     newArticleIds |-> [i \in 1..Len(items) |-> Len(A) + i]]

\* Mutant: the lookup sees the table as it was before the batch, not the
\* articles inserted earlier in the same batch.
bulkCreateArticlesLooksBeforeBatch(A, items) ==
    LET fresh == SelectSeq(items,
                     LAMBDA guid : \A a \in ArticleIds(A) : A[a].guid # guid)
    IN  [articles |-> A \o [i \in 1..Len(fresh) |->
                               [guid |-> fresh[i],
                                status |-> ArticleStatus.PENDING,
                                extractedContent |-> FALSE, score |-> FALSE,
                                taken |-> 0, marked |-> 0]],
         newArticleIds |-> [i \in 1..Len(fresh) |-> Len(A) + i]]

\* Mutant: the ids of the articles that already existed are returned too (the
\* earlier bulkCreateArticles of src/convex/services/articles.ts).
bulkCreateArticlesReturnsExisting(A, items) ==
    LET created == bulkCreateLoop(A, items, <<>>).articles
    IN  [articles |-> created,
         newArticleIds |-> [i \in 1..Len(items) |->
             CHOOSE a \in ArticleIds(created) : created[a].guid = items[i]]]

\* Mutant: an item whose article exists and is pending is handed on with
\* the new ones.
bulkCreateArticlesTakesPending(A, items) ==
    LET created == bulkCreateLoop(A, items, <<>>).articles
        found == [i \in 1..Len(items) |->
                     CHOOSE a \in ArticleIds(created) :
                         created[a].guid = items[i]]
    IN  [articles |-> created,
         newArticleIds |->
             SelectSeq(found, LAMBDA a : \/ a > Len(A)
                                         \/ A[a].status = "pending")]

bulkCreateArticles(A, items) == bulkCreateLoop(A, items, <<>>)

\* updateArticleStatus(articleId, status)
updateArticleStatus(A, articleId, status) ==
    [A EXCEPT ![articleId].status = status]

\* updateArticleContent(articleId, content)
updateArticleContent(A, articleId) ==
    [A EXCEPT ![articleId].extractedContent = TRUE,
              ![articleId].status = ArticleStatus.PROCESSING]

\* updateArticleAnalysis(articleId, summary, score, ..., status)
updateArticleAnalysis(A, articleId, status) ==
    [A EXCEPT ![articleId].score = TRUE, ![articleId].status = status]


\* The patch of both retry mutations: status pending, extractedContent,
\* summary, score, recommendation and videoAngle undefined (the model's score
\* stands for the four fields updateArticleAnalysis writes together).
retried(article) ==
    [article EXCEPT !.status = ArticleStatus.PENDING,
                    !.extractedContent = FALSE, !.score = FALSE]

\* Mutant: only the status is reset.
retryArticleKeepsFields(A, articleId) ==
    IF articleId \notin ArticleIds(A) \/ A[articleId].status # "failed"
    THEN [articles |-> A, success |-> FALSE]
    ELSE [articles |-> [A EXCEPT ![articleId].status = "pending"],
          success |-> TRUE]

\* Mutant: the status of the article is not looked at.
retryArticleAnyStatus(A, articleId) ==
    IF articleId \notin ArticleIds(A)
    THEN [articles |-> A, success |-> FALSE]
    ELSE [articles |-> [A EXCEPT ![articleId] = retried(@)],
          success |-> TRUE]

\* retryArticle({articleId}): the table after it and the success it returns.
retryArticle(A, articleId) ==
    IF articleId \notin ArticleIds(A)
       \/ A[articleId].status # ArticleStatus.FAILED
    THEN [articles |-> A, success |-> FALSE]
    ELSE [articles |-> [A EXCEPT ![articleId] = retried(@)],
          success |-> TRUE]

\* retryAllFailedArticles(): the table after it and the count it returns.
retryAllFailedArticles(A) ==
    LET failedArticles == {a \in ArticleIds(A) :
                              A[a].status = ArticleStatus.FAILED}
    IN  [articles |-> [a \in ArticleIds(A) |->
                          IF a \in failedArticles THEN retried(A[a])
                          ELSE A[a]],
         count |-> Cardinality(failedArticles)]

\* ------------------------------------------------------- extractArticles
\* A feed item, as far as extractArticles reads it: guid and link ("" when
\* absent or empty, both falsy) and the date fields getPublishedDate tries,
\* in its order; a field is blank (not a string, or empty after trim),
\* unparsable (new Date gives NaN) or a date (milliseconds).
blank == [kind |-> "blank", time |-> 0]
unparsable == [kind |-> "unparsable", time |-> 0]
dateAt(time) == [kind |-> "date", time |-> time]

\* getPublishedDate(item): the first candidate that parses, <<>> for null.
RECURSIVE getPublishedDate(_)
getPublishedDate(candidates) ==
    IF candidates = <<>> THEN <<>>
    ELSE IF Head(candidates).kind = "date" THEN <<Head(candidates).time>>
    ELSE getPublishedDate(Tail(candidates))

MsPerDay == 24 * 60 * 60 * 1000

\* Mutant: the item at index UNDATED_ITEM_FALLBACK_LIMIT is still taken.
includeUndatedByFallbackOneMore(publishedDate, index) ==
    publishedDate = <<>> /\ index <= UNDATED_ITEM_FALLBACK_LIMIT

\* !publishedDate && index < UNDATED_ITEM_FALLBACK_LIMIT (index from 0)
includeUndatedByFallback(publishedDate, index) ==
    publishedDate = <<>> /\ index < UNDATED_ITEM_FALLBACK_LIMIT

\* !!publishedDate && publishedDate >= cutoffDate
includeDatedItem(publishedDate, cutoffDate) ==
    publishedDate # <<>> /\ publishedDate[1] >= cutoffDate

\* guid: item.guid || item.link || ''
itemGuid(item) ==
    IF item.guid # "" THEN item.guid
    ELSE IF item.link # "" THEN item.link
    ELSE ""

\* extractArticles(feed, feedData, daysBack), with Date.now() as `now`: the
\* forEach over feedData.items; of an article the model keeps url, guid and
\* whether publishedAt is the item's date (<<time>>) or the 1970 default.
RECURSIVE extractLoop(_, _, _, _)
extractLoop(items, index, cutoffDate, collected) ==
    IF index >= Len(items) THEN collected
    ELSE LET item == items[index + 1]
             publishedDate == getPublishedDate(item.candidates)
         IN  IF /\ ~includeDatedItem(publishedDate, cutoffDate)
                /\ ~includeUndatedByFallback(publishedDate, index)
             THEN extractLoop(items, index + 1, cutoffDate, collected)
             ELSE extractLoop(items, index + 1, cutoffDate,
                      Append(collected, [url |-> item.link,
                                         publishedAt |-> publishedDate,
                                         guid |-> itemGuid(item)]))

extractArticles(items, daysBack, now) ==
    extractLoop(items, 0, now - daysBack * MsPerDay, <<>>)

\* The guids of the articles parseFeeds passes to bulkCreateArticles.
guidsOf(extracted) == [i \in 1..Len(extracted) |-> extracted[i].guid]

\* ---------------------------------------------------------------- initial
Init ==
    /\ scans = <<>>
    /\ scanQueue = <<>>
    /\ articles = <<>>
    /\ settings = [lastRunAt |-> FALSE]
    /\ rss = <<>>
    /\ scheduled = EmptyBag
    /\ running = EmptyBag
    /\ watchdog = <<>>
    /\ autoScan = "idle"
    /\ history = <<>>

\* ------------------------------------------------------- scan controller
\* queueScan({rssCount, daysBack, parallelism, delay}): one mutation.
queueScan(b, parallelism) ==
    LET runningScan == getRunningScan(scans)
    IN  IF runningScan # NoScan
        THEN \* throw new ConvexError('A scan is already running')
             UNCHANGED <<scans, scheduled, history>>
        ELSE /\ Len(scans) < b.scans
             /\ scans' = Append(scans, NewScan)
             /\ scheduled' = Put(scheduled,
                                 parseFeedsTask(Len(scans) + 1, parallelism))
             /\ history' = Append(history, NoHistory)

QueueScan(b) ==
    /\ \E parallelism \in 1..b.parallelism : queueScan(b, parallelism)
    /\ UNCHANGED <<scanQueue, articles, settings, rss, running, watchdog,
                   autoScan>>

\* Mutant: only the lookup is checked, not the status.
cancelScanErrorOnlyNotFound(S, scanId) ==
    IF scanId \notin ScanIds(S) THEN "Scan not found." ELSE ""

\* cancelScan: the ConvexError its precondition checks throw, "" for none.
cancelScanError(S, scanId) ==
    IF scanId \notin ScanIds(S) THEN "Scan not found."
    ELSE IF IsCompleted(S[scanId].status) THEN "Cannot cancel a completed scan."
    ELSE ""

\* cancelScan({scanId}): one mutation; scanId ranges over the ids a caller
\* can hold, one of which (b.scans + 1) never names a document.
cancelScan(scanId) ==
    IF cancelScanError(scans, scanId) # ""
    THEN \* throw new ConvexError(...)
         UNCHANGED <<scans, scanQueue, history>>
    ELSE /\ scans' = [scans EXCEPT
                         ![scanId].status = ScanStatus.COMPLETED,
                         ![scanId].completedAt = setCompletedAt(@)]
         /\ scanQueue' = cancelQueue(scanQueue, scanId)
         /\ history' = [history EXCEPT ![scanId].cancelled = TRUE]

CancelScan(b) ==
    /\ \E scanId \in 1..(b.scans + 1) : cancelScan(scanId)
    /\ UNCHANGED <<articles, settings, rss, scheduled, running, watchdog,
                   autoScan>>

\* ------------------------------------------------------------ parseFeeds
\* Dispatch of a scheduled parseFeeds, up to and including its
\* bulkCreateArticles: `items` is what the feed loop and extractArticles
\* collected (the guids, in discovery order).
ParseFeedsIngestOf(task, items) ==
    LET created == bulkCreateArticles(articles, items)
    IN  /\ task.fn = "parseFeeds"
        /\ scheduled' = Take(scheduled, task)
        /\ articles' = created.articles
        /\ running' = Put(running,
               Invocation("parseFeeds", task.scanId, "createQueue",
                          created.newArticleIds, NoArticle,
                          task.parallelism))
        /\ UNCHANGED <<scans, scanQueue, settings, rss, watchdog, autoScan,
                       history>>

\* The item lists a feed fetch can yield: up to b.batch guids among b.guids.
FeedItems(b) == UNION {[1..n -> 1..b.guids] : n \in 0..b.batch}

ParseFeedsIngest(b) ==
    \E task \in BagToSet(scheduled), items \in FeedItems(b) :
        ParseFeedsIngestOf(task, items)

\* parseFeeds: runMutation(createQueue)
ParseFeedsCreateQueue ==
    \E inv \in BagToSet(running) :
        /\ inv.fn = "parseFeeds" /\ inv.pc = "createQueue"
        /\ scanQueue' = createQueue(scanQueue, inv.scanId, inv.articleIds)
        /\ history' = [history EXCEPT ![inv.scanId].created = inv.articleIds]
        /\ running' = Put(Take(running, inv),
                          [inv EXCEPT !.pc = "updateScanProgress"])
        /\ UNCHANGED <<scans, articles, settings, rss, scheduled, watchdog,
                       autoScan>>

\* parseFeeds: runMutation(updateScanProgress, status 'running')
ParseFeedsUpdateScanProgress ==
    \E inv \in BagToSet(running) :
        /\ inv.fn = "parseFeeds" /\ inv.pc = "updateScanProgress"
        /\ scans' = updateScanProgress(scans, inv.scanId, ScanStatus.RUNNING,
                                       Len(inv.articleIds), 0)
        /\ running' = Put(Take(running, inv), [inv EXCEPT !.pc = "schedule"])
        /\ UNCHANGED <<scanQueue, articles, settings, rss, scheduled, watchdog,
                       autoScan, history>>

\* Mutant: the loop starts one processor fewer.
processorsToStartOffByOne(parallelism, articleIds) ==
    Min(parallelism, Len(articleIds)) - 1

\* Mutant: `parallelism` processors whatever the number of articles.
processorsToStartIgnoresCount(parallelism, articleIds) == parallelism

\* processorsToStart = Math.min(parallelism, articleIds.length)
processorsToStart(parallelism, articleIds) == Min(parallelism, Len(articleIds))

RECURSIVE PutCopies(_, _, _)
PutCopies(bag, e, n) == IF n <= 0 THEN bag ELSE PutCopies(Put(bag, e), e, n - 1)

\* Mutant: `parallelism` processors are started whatever the number of
\* articles, and the scan is never completed here.
ParseFeedsScheduleUnconditional ==
    \E inv \in BagToSet(running) :
        /\ inv.fn = "parseFeeds" /\ inv.pc = "schedule"
        /\ running' = Take(running, inv)
        /\ scheduled' = PutCopies(scheduled, processNextArticleTask(inv.scanId),
                                  inv.parallelism)
        /\ UNCHANGED <<scans, scanQueue, articles, settings, rss, watchdog,
                       autoScan, history>>

\* parseFeeds: the loop that schedules the processors (runAfter(i * 100)),
\* or, with no new article, the updateScanStatus(completed) of the else
\* branch.  The action ends here.
ParseFeedsSchedule ==
    \E inv \in BagToSet(running) :
        /\ inv.fn = "parseFeeds" /\ inv.pc = "schedule"
        /\ running' = Take(running, inv)
        /\ IF Len(inv.articleIds) > 0
           THEN /\ scheduled' =
                       PutCopies(scheduled, processNextArticleTask(inv.scanId),
                                 processorsToStart(inv.parallelism,
                                                   inv.articleIds))
                /\ UNCHANGED scans
           ELSE /\ scans' = updateScanStatus(scans, inv.scanId,
                                             ScanStatus.COMPLETED, "")
                /\ UNCHANGED scheduled
        /\ UNCHANGED <<scanQueue, articles, settings, rss, watchdog, autoScan,
                       history>>

\* ---------------------------------------------------- processNextArticle
\* Dispatch of a scheduled processNextArticle, up to and including its
\* runMutation(popNextArticle).
ProcessNextArticlePop ==
    \E task \in BagToSet(scheduled) :
        LET popped == popNextArticle(scanQueue, task.scanId)
        IN  /\ task.fn = "processNextArticle"
            /\ scheduled' = Take(scheduled, task)
            /\ scanQueue' = popped.scanQueue
            /\ running' = Put(running,
                   Invocation("processNextArticle", task.scanId, "popped",
                              <<>>, popped.result, 0))
            /\ history' =
                   IF popped.result # NoArticle
                   THEN [history EXCEPT ![task.scanId].popped =
                                            Append(@, popped.result)]
                   ELSE history
            /\ articles' =
                   IF popped.result # NoArticle
                   THEN [articles EXCEPT ![popped.result].taken = @ + 1]
                   ELSE articles
            /\ UNCHANGED <<scans, settings, rss, watchdog, autoScan>>

\* processNextArticle, nextArticleId null: updateScanStatus(completed).
ProcessNextArticleComplete ==
    \E inv \in BagToSet(running) :
        /\ inv.fn = "processNextArticle" /\ inv.pc = "popped"
        /\ inv.nextArticleId = NoArticle
        /\ scans' = updateScanStatus(scans, inv.scanId, ScanStatus.COMPLETED, "")
        /\ running' = Take(running, inv)
        /\ UNCHANGED <<scanQueue, articles, settings, rss, scheduled, watchdog,
                       autoScan, history>>

\* processNextArticle: getArticleByIdInternal, then
\* updateArticleStatus(processing).
ProcessNextArticleMark ==
    \E inv \in BagToSet(running) :
        /\ inv.fn = "processNextArticle" /\ inv.pc = "popped"
        /\ inv.nextArticleId # NoArticle
        /\ articles' = [updateArticleStatus(articles, inv.nextArticleId,
                                            ArticleStatus.PROCESSING)
                           EXCEPT ![inv.nextArticleId].marked = @ + 1]
        /\ running' = Put(Take(running, inv), [inv EXCEPT !.pc = "extract"])
        /\ UNCHANGED <<scans, scanQueue, settings, rss, scheduled, watchdog,
                       autoScan, history>>

\* Mutant: the catch block fails the article and schedules nothing.
ProcessNextArticleExtractStopsOnThrow ==
    \E inv \in BagToSet(running), throws \in BOOLEAN :
        /\ inv.fn = "processNextArticle" /\ inv.pc = "extract"
        /\ IF ~throws
           THEN /\ articles' = updateArticleContent(articles, inv.nextArticleId)
                /\ scheduled' = Put(scheduled,
                       analyzeArticleTask(inv.scanId, inv.nextArticleId))
           ELSE /\ articles' = updateArticleStatus(articles, inv.nextArticleId,
                                                   ArticleStatus.FAILED)
                /\ UNCHANGED scheduled
        /\ running' = Take(running, inv)
        /\ UNCHANGED <<scans, scanQueue, settings, rss, watchdog, autoScan,
                       history>>

\* Mutant: after a successful extraction the next processNextArticle is
\* scheduled along with analyzeArticle.
ProcessNextArticleExtractEager ==
    \E inv \in BagToSet(running), throws \in BOOLEAN :
        /\ inv.fn = "processNextArticle" /\ inv.pc = "extract"
        /\ IF ~throws
           THEN /\ articles' = updateArticleContent(articles, inv.nextArticleId)
                /\ scheduled' = Put(Put(scheduled,
                       analyzeArticleTask(inv.scanId, inv.nextArticleId)),
                       processNextArticleTask(inv.scanId))
           ELSE /\ articles' = updateArticleStatus(articles, inv.nextArticleId,
                                                   ArticleStatus.FAILED)
                /\ scheduled' = Put(scheduled,
                       processNextArticleTask(inv.scanId))
        /\ running' = Take(running, inv)
        /\ UNCHANGED <<scans, scanQueue, settings, rss, watchdog, autoScan,
                       history>>

\* processNextArticle: the extraction.  It returns text (updateArticleContent,
\* then analyzeArticle is scheduled) or throws (the catch block: the article
\* is failed and the next processNextArticle is scheduled).
ProcessNextArticleExtract ==
    \E inv \in BagToSet(running), throws \in BOOLEAN :
        /\ inv.fn = "processNextArticle" /\ inv.pc = "extract"
        /\ IF ~throws
           THEN /\ articles' = updateArticleContent(articles, inv.nextArticleId)
                /\ scheduled' = Put(scheduled,
                       analyzeArticleTask(inv.scanId, inv.nextArticleId))
           ELSE /\ articles' = updateArticleStatus(articles, inv.nextArticleId,
                                                   ArticleStatus.FAILED)
                /\ scheduled' = Put(scheduled,
                       processNextArticleTask(inv.scanId))
        /\ running' = Take(running, inv)
        /\ UNCHANGED <<scans, scanQueue, settings, rss, watchdog, autoScan,
                       history>>

\* -------------------------------------------------------- analyzeArticle
\* The text of the model's answer, as parseScores reads it: whether a
\* {...} is found in it, whether JSON.parse accepts that, and whether the
\* parsed object has a string summary and the four numbers.
AnalysisTexts ==
    {[json |-> "none", summary |-> FALSE, numbers |-> FALSE],
     [json |-> "invalid", summary |-> FALSE, numbers |-> FALSE],
     [json |-> "object", summary |-> FALSE, numbers |-> TRUE],
     [json |-> "object", summary |-> TRUE, numbers |-> FALSE],
     [json |-> "object", summary |-> TRUE, numbers |-> TRUE]}

\* Mutant: any parsed object is taken for scores.
parseScoresAnyObject(text) ==
    IF text.json = "object" THEN <<text>> ELSE <<>>

\* parseScores(text): <<>> for null.
parseScores(text) ==
    IF text.json = "none" THEN <<>>
    ELSE IF text.json = "invalid" THEN <<>>
    ELSE IF text.summary /\ text.numbers THEN <<text>>
    ELSE <<>>

\* analyzeArticle: generateText throws (generated = <<>>: the catch block,
\* updateArticleStatus failed) or returns a text, from which parseScores
\* yields scores (updateArticleAnalysis) or null (updateArticleStatus
\* completed); each way the next processNextArticle is scheduled.
AnalyzeArticleOf(task, generated) ==
    /\ task.fn = "analyzeArticle"
    /\ articles' =
           IF generated = <<>>
           THEN updateArticleStatus(articles, task.articleId,
                                    ArticleStatus.FAILED)
           ELSE IF parseScores(generated[1]) # <<>>
           THEN updateArticleAnalysis(articles, task.articleId,
                                      ArticleStatus.COMPLETED)
           ELSE updateArticleStatus(articles, task.articleId,
                                    ArticleStatus.COMPLETED)
    /\ scheduled' = Put(Take(scheduled, task),
                        processNextArticleTask(task.scanId))
    /\ UNCHANGED <<scans, scanQueue, settings, rss, running, watchdog,
                   autoScan, history>>

AnalyzeArticle ==
    \E task \in BagToSet(scheduled),
       generated \in {<<>>} \cup {<<text>> : text \in AnalysisTexts} :
        AnalyzeArticleOf(task, generated)

\* -------------------------------------------------------------- watchdog
\* checkStalledScans, cron every 30 s (one run at a time): runQuery(
\* getRunningScans).  The loop below works on these documents as read here.
WatchdogStart ==
    /\ watchdog = <<>>
    /\ getRunningScans(scans) # {}
    /\ watchdog' = [i \in 1..Cardinality(getRunningScans(scans)) |->
                      LET id == CHOOSE s \in getRunningScans(scans) :
                                  Cardinality({r \in getRunningScans(scans) :
                                                   r < s}) = i - 1
                      IN  [scanId |-> id, status |-> scans[id].status]]
    /\ UNCHANGED <<scans, scanQueue, articles, settings, rss, scheduled,
                   running, autoScan, history>>

\* The two repairs of one loop iteration that schedule a processor.
restartsCompletedQueue(queue) ==
    Len(queue.list) > 0 /\ queue.status = ScanQueueStatus.COMPLETED

\* Mutant: the long-running rule fires on an empty list.
restartsLongRunningWhenEmpty(scan, queue, minutesElapsed) ==
    /\ scan.status = ScanStatus.RUNNING
    /\ minutesElapsed > RUNNING_TIMEOUT_MINUTES
    /\ Len(queue.list) = 0

restartsLongRunning(scan, queue, minutesElapsed) ==
    /\ scan.status = ScanStatus.RUNNING
    /\ minutesElapsed > RUNNING_TIMEOUT_MINUTES
    /\ Len(queue.list) > 0

\* Mutant: the timeout fires at the limit, not past it.
timesOutInitializingAtLimit(scan, minutesElapsed) ==
    scan.status = ScanStatus.INITIALIZING
    /\ minutesElapsed >= INIT_TIMEOUT_MINUTES

timesOutInitializing(scan, minutesElapsed) ==
    scan.status = ScanStatus.INITIALIZING
    /\ minutesElapsed > INIT_TIMEOUT_MINUTES

\* One iteration of the loop over runningScans: `scan` is the document read
\* by getRunningScans, the queue is read now, minutesElapsed is now minus
\* scan._creationTime.
WatchdogVisitAt(b, minutesElapsed) ==
        LET scan == Head(watchdog)
            q == getQueueByScanId(scanQueue, scan.scanId)
            queue == scanQueue[q]
            launches == (IF restartsCompletedQueue(queue) THEN 1 ELSE 0)
                        + (IF restartsLongRunning(scan, queue, minutesElapsed)
                           THEN 1 ELSE 0)
            processor == processNextArticleTask(scan.scanId)
        IN  /\ watchdog # <<>>
            /\ watchdog' = Tail(watchdog)
            /\ IF q = 0
               THEN /\ scans' =
                          IF timesOutInitializing(scan, minutesElapsed)
                          THEN updateScanStatus(scans, scan.scanId,
                                   ScanStatus.COMPLETED,
                                   "Scan timed out during initialization")
                          ELSE scans
                    /\ UNCHANGED <<scanQueue, scheduled, history>>
               ELSE /\ history[scan.scanId].watchdogLaunches + launches
                           <= b.launches
                    /\ scanQueue' =
                          IF restartsCompletedQueue(queue)
                          THEN updateQueueStatus(scanQueue, q,
                                                 ScanQueueStatus.PROCESSING)
                          ELSE scanQueue
                    /\ scheduled' =
                          IF launches = 0 THEN scheduled
                          ELSE IF launches = 1 THEN Put(scheduled, processor)
                          ELSE Put(Put(scheduled, processor), processor)
                    /\ history' = [history EXCEPT
                          ![scan.scanId].watchdogLaunches = @ + launches]
                    /\ UNCHANGED scans
            /\ UNCHANGED <<articles, settings, rss, running, autoScan>>

WatchdogVisit(b) ==
    \E minutesElapsed \in ElapsedMarks : WatchdogVisitAt(b, minutesElapsed)

\* -------------------------------------------------------------- autoScan
\* Whether the interval has passed: no lastRunAt, or not elapsedMinutes <
\* interval.
intervalElapsed(lastRunAt, elapsedMinutes, interval) ==
    ~lastRunAt \/ ~(elapsedMinutes < interval)

\* checkAndTriggerScan, cron every minute (one run at a time): its queries
\* and, when it decides to trigger, its setSettingInternal(lastRunAt).  Every
\* other outcome returns {triggered: false} and changes nothing.
\* autoScan.enabled, the parallelism setting and the feeds are what the
\* settings page and the feed page last wrote: any value at the time of
\* the read.  settings.lastRunAt is only written here.
AutoScanCheck(b) ==
    \E enabled \in BOOLEAN, elapsedMinutes \in IntervalMarks,
       feedCount \in 0..1 :
        /\ autoScan = "idle"
        /\ Len(scans) < b.scans
        /\ enabled
        /\ getRunningScan(scans) = NoScan
        /\ intervalElapsed(settings.lastRunAt, elapsedMinutes,
                           DEFAULT_INTERVAL_MINUTES)
        /\ feedCount # 0
        /\ settings' = [settings EXCEPT !.lastRunAt = TRUE]
        /\ autoScan' = "triggerAutoScan"
        /\ UNCHANGED <<scans, scanQueue, articles, rss, scheduled, running,
                       watchdog, history>>

\* triggerAutoScan({feedCount, daysBack, parallelism, filterTags}): one
\* mutation, the last step of checkAndTriggerScan.
triggerAutoScan(parallelism) ==
    /\ scans' = Append(scans, NewScan)
    /\ scheduled' = Put(scheduled, parseFeedsTask(Len(scans) + 1, parallelism))
    /\ history' = Append(history, NoHistory)

AutoScanTrigger(b) ==
    /\ autoScan = "triggerAutoScan"
    /\ Len(scans) < b.scans
    /\ triggerAutoScan(DEFAULT_PARALLELISM)
    /\ autoScan' = "idle"
    /\ UNCHANGED <<scanQueue, articles, settings, rss, running, watchdog>>

\* The system under the bounds b.
NextWithin(b) ==
    \/ QueueScan(b)
    \/ CancelScan(b)
    \/ ParseFeedsIngest(b)
    \/ ParseFeedsCreateQueue
    \/ ParseFeedsUpdateScanProgress
    \/ ParseFeedsSchedule
    \/ ProcessNextArticlePop
    \/ ProcessNextArticleComplete
    \/ ProcessNextArticleMark
    \/ ProcessNextArticleExtract
    \/ AnalyzeArticle
    \/ WatchdogStart
    \/ WatchdogVisit(b)
    \/ AutoScanCheck(b)
    \/ AutoScanTrigger(b)

Next == NextWithin(Wide)
Spec == Init /\ [][Next]_vars

NextScan == NextWithin(Deep)
SpecScan == Init /\ [][NextScan]_vars

\* The scheduler runs every function it was handed (runAfter) and an action
\* that is running reaches its next runMutation: weak fairness of every step
\* of parseFeeds, processNextArticle and analyzeArticle.  Nothing is assumed
\* of the callers (queueScan, cancelScan) nor of the crons.
PipelineFairness(b) ==
    /\ WF_vars(ParseFeedsIngest(b))
    /\ WF_vars(ParseFeedsCreateQueue)
    /\ WF_vars(ParseFeedsUpdateScanProgress)
    /\ WF_vars(ParseFeedsSchedule)
    /\ WF_vars(ProcessNextArticlePop)
    /\ WF_vars(ProcessNextArticleComplete)
    /\ WF_vars(ProcessNextArticleMark)
    /\ WF_vars(ProcessNextArticleExtract)
    /\ WF_vars(AnalyzeArticle)

SpecScanFair == SpecScan /\ PipelineFairness(Deep)

\* ------------------------------------------------- actions that end early
\* An action ends where a call outside its try block throws, or where the
\* runtime stops it: nothing after that point runs and nothing is scheduled.
\* history[scanId].died lists the functions that ended so, at most MaxDied
\* per scan (no more than the processors the watchdog may launch, so that a
\* launch is never withheld from a scan whose chains all ended).
CanDie(scanId) == Len(history[scanId].died) < MaxDied

\* parseFeeds ends before createQueue, before updateScanProgress or before
\* the scheduling loop.
ParseFeedsStops ==
    \E inv \in BagToSet(running) :
        /\ inv.fn = "parseFeeds"
        /\ CanDie(inv.scanId)
        /\ running' = Take(running, inv)
        /\ history' = [history EXCEPT ![inv.scanId].died = Append(@, "parseFeeds")]
        /\ UNCHANGED <<scans, scanQueue, articles, settings, rss, scheduled,
                       watchdog, autoScan>>

\* processNextArticle ends after its pop without scheduling a successor
\* (getArticleByIdInternal, createLog or updateArticleStatus threw).
ProcessNextArticleDies ==
    \E inv \in BagToSet(running) :
        /\ inv.fn = "processNextArticle"
        /\ CanDie(inv.scanId)
        /\ running' = Take(running, inv)
        /\ history' = [history EXCEPT ![inv.scanId].died =
                                     Append(@, "processNextArticle")]
        /\ UNCHANGED <<scans, scanQueue, articles, settings, rss, scheduled,
                       watchdog, autoScan>>

\* analyzeArticle ends before its try block (getArticleByIdInternal,
\* getSettingInternal or createLog threw).
AnalyzeArticleDies ==
    \E task \in BagToSet(scheduled) :
        /\ task.fn = "analyzeArticle"
        /\ CanDie(task.scanId)
        /\ scheduled' = Take(scheduled, task)
        /\ history' = [history EXCEPT ![task.scanId].died =
                                     Append(@, "analyzeArticle")]
        /\ UNCHANGED <<scans, scanQueue, articles, settings, rss, running,
                       watchdog, autoScan>>

NextStall ==
    \/ NextWithin(Deep)
    \/ ParseFeedsStops
    \/ ProcessNextArticleDies
    \/ AnalyzeArticleDies

\* The crons keep running and the clock advances: checkStalledScans starts
\* again and again, and its visits come to see scans older than both
\* timeouts.
WatchdogFairness(b) ==
    /\ WF_vars(WatchdogStart)
    /\ SF_vars(WatchdogVisitAt(b, RUNNING_TIMEOUT_MINUTES + 1))

SpecStall ==
    /\ Init /\ [][NextStall]_vars
    /\ PipelineFairness(Deep)
    /\ WatchdogFairness(Deep)

\* ------------------------------------------------- the queue module alone
\* The mutations of services/queue called directly, in any order, by any
\* number of callers: `running` holds the last call with what it returned.
\* The ids are not checked against the other tables (v.id only checks the
\* table), so scans and articles stay empty here.
Returned(fn, scanId, result) ==
    SetToBag({Invocation(fn, scanId, "returned", <<>>, result, 0)})

\* The lists a caller can pass: distinct article ids, in any order.
DistinctLists(ids) ==
    UNION {{l \in [1..n -> ids] : \A i, j \in 1..n : i # j => l[i] # l[j]} :
           n \in 0..Cardinality(ids)}

CallCreateQueue ==
    \E scanId \in 1..MaxScans, articleIds \in DistinctLists(1..MaxGuids) :
        /\ Len(scanQueue) < MaxQueueDocs
        /\ scanQueue' = createQueue(scanQueue, scanId, articleIds)
        /\ running' = Returned("createQueue", scanId, Len(scanQueue) + 1)
        /\ UNCHANGED <<scans, articles, settings, rss, scheduled, watchdog,
                       autoScan, history>>

CallPopNextArticle ==
    \E scanId \in 1..MaxScans :
        /\ scanQueue' = popNextArticle(scanQueue, scanId).scanQueue
        /\ running' = Returned("popNextArticle", scanId,
                               popNextArticle(scanQueue, scanId).result)
        /\ UNCHANGED <<scans, articles, settings, rss, scheduled, watchdog,
                       autoScan, history>>

CallCancelQueue ==
    \E scanId \in 1..MaxScans :
        /\ scanQueue' = cancelQueue(scanQueue, scanId)
        /\ running' = Returned("cancelQueue", scanId, NoArticle)
        /\ UNCHANGED <<scans, articles, settings, rss, scheduled, watchdog,
                       autoScan, history>>

CallUpdateQueueStatus ==
    \E queueId \in QueueIds(scanQueue),
       status \in {ScanQueueStatus.AWAITING, ScanQueueStatus.PROCESSING,
                   ScanQueueStatus.COMPLETED} :
        /\ scanQueue' = updateQueueStatus(scanQueue, queueId, status)
        /\ running' = Returned("updateQueueStatus", scanQueue[queueId].scanId,
                               NoArticle)
        /\ UNCHANGED <<scans, articles, settings, rss, scheduled, watchdog,
                       autoScan, history>>

NextQueue ==
    \/ CallCreateQueue
    \/ CallPopNextArticle
    \/ CallCancelQueue
    \/ CallUpdateQueueStatus

SpecQueue == Init /\ [][NextQueue]_vars

\* ----------------------------------------------------- the retry mutations
\* One scan with the two public retry mutations called at any time;
\* articleId ranges over the ids a caller can hold, one of which names no
\* document.
\* Mutant: the retried article is put back at the end of every queue.
RetryArticleRequeues(articleId) ==
    /\ articles' = retryArticle(articles, articleId).articles
    /\ scanQueue' =
          IF retryArticle(articles, articleId).success
          THEN [q \in QueueIds(scanQueue) |->
                   [scanQueue[q] EXCEPT !.list = Append(@, articleId),
                                        !.status = ScanQueueStatus.PROCESSING]]
          ELSE scanQueue
    /\ UNCHANGED <<scans, settings, rss, scheduled, running, watchdog,
                   autoScan, history>>

RetryArticleOf(articleId) ==
    /\ articles' = retryArticle(articles, articleId).articles
    /\ UNCHANGED <<scans, scanQueue, settings, rss, scheduled, running,
                   watchdog, autoScan, history>>

RetryArticle ==
    \E articleId \in 1..(Len(articles) + 1) : RetryArticleOf(articleId)

RetryAllFailedArticles ==
    /\ articles' = retryAllFailedArticles(articles).articles
    /\ UNCHANGED <<scans, scanQueue, settings, rss, scheduled, running,
                   watchdog, autoScan, history>>

NextRetry ==
    \/ NextWithin(Deep)
    \/ RetryArticle
    \/ RetryAllFailedArticles

SpecRetry == Init /\ [][NextRetry]_vars

\* The same with two scans, one after the other or side by side.
NextRetryScans ==
    \/ NextWithin(Wide)
    \/ RetryArticle
    \/ RetryAllFailedArticles

SpecRetryScans == Init /\ [][NextRetryScans]_vars

\* ------------------------------------------------ the feed loop of parseFeeds
\* parseFeeds from its start to its end, feed by feed, over a table of feeds
\* in any state of health, run for each of two queued scans, one after the
\* other; the processors it schedules are not dispatched here.  `running`
\* holds the one invocation, with more of its local variables: rssFeeds (the
\* feeds still to visit, as getFeedsForScan returned them), articles (what
\* the loop has pushed so far, the guids), successCount and failCount.

\* updateFeedStatus({feedId, success, error}); a deleted feed is left alone.
\* Mutant: a failure sets failCount to 1 whatever it was.
updateFeedStatusCountsFromZero(R, feedId, success, error) ==
    IF R[feedId].deleted THEN R
    ELSE IF success
         THEN [R EXCEPT ![feedId].lastFetchedAt = TRUE,
                        ![feedId].lastError = "",
                        ![feedId].failCount = <<0>>]
         ELSE [R EXCEPT ![feedId].lastFetchedAt = TRUE,
                        ![feedId].lastError = error,
                        ![feedId].failCount = <<1>>]

updateFeedStatus(R, feedId, success, error) ==
    IF R[feedId].deleted THEN R
    ELSE IF success
         THEN [R EXCEPT ![feedId].lastFetchedAt = TRUE,
                        ![feedId].lastError = "",
                        ![feedId].failCount = <<0>>]
         ELSE [R EXCEPT ![feedId].lastFetchedAt = TRUE,
                        ![feedId].lastError = error,
                        ![feedId].failCount =
                            <<(IF @ = <<>> THEN 0 ELSE @[1]) + 1>>]

\* getFeedsForScan({tags}) with no tag filter: every feed, in table order.
getFeedsForScan(R) ==
    SelectSeq([id \in 1..Len(R) |-> [id |-> id, xmlUrl |-> R[id].xmlUrl]],
              LAMBDA feed : ~R[feed.id].deleted)

\* Feed documents: never fetched, healthy, failing, and one with no xmlUrl.
FeedDocs ==
    {[xmlUrl |-> TRUE, lastFetchedAt |-> FALSE, lastError |-> "",
      failCount |-> <<>>, deleted |-> FALSE],
     [xmlUrl |-> TRUE, lastFetchedAt |-> TRUE, lastError |-> "",
      failCount |-> <<0>>, deleted |-> FALSE],
     [xmlUrl |-> TRUE, lastFetchedAt |-> TRUE, lastError |-> "HTTP 500",
      failCount |-> <<2>>, deleted |-> FALSE],
     [xmlUrl |-> FALSE, lastFetchedAt |-> FALSE, lastError |-> "",
      failCount |-> <<>>, deleted |-> FALSE]}

\* The items a fetched feed can hold: guid and link present or not, the link
\* possibly equal to another item's guid, undated or older than the cutoff.
FeedData ==
    LET Items == [guid : {"", "g1"}, link : {"", "g1", "l1"},
                  candidates : {<<>>, <<dateAt(-((DEFAULT_DAYS_BACK + 1)
                                                 * MsPerDay))>>}]
    IN  UNION {[1..n -> Items] : n \in 0..MaxItems}

InitFeeds ==
    /\ rss \in [1..MaxFeeds -> FeedDocs]
    /\ scans = <<NewScan, NewScan>>
    /\ history = <<NoHistory, NoHistory>>
    /\ scheduled = SetToBag({parseFeedsTask(1, DEFAULT_PARALLELISM),
                             parseFeedsTask(2, DEFAULT_PARALLELISM)})
    /\ scanQueue = <<>> /\ articles = <<>>
    /\ settings = [lastRunAt |-> FALSE]
    /\ running = EmptyBag /\ watchdog = <<>> /\ autoScan = "idle"

\* Dispatch of parseFeeds, up to its runQuery(getFeedsForScan).
ParseFeedsGetFeeds ==
    \E task \in BagToSet(scheduled) :
        /\ task.fn = "parseFeeds"
        /\ running = EmptyBag
        /\ scheduled' = Take(scheduled, task)
        /\ running' = SetToBag({[fn |-> "parseFeeds", scanId |-> task.scanId,
                                 pc |-> "feeds",
                                 rssFeeds |-> getFeedsForScan(rss),
                                 articles |-> <<>>, successCount |-> 0,
                                 failCount |-> 0, articleIds |-> <<>>,
                                 nextArticleId |-> NoArticle,
                                 parallelism |-> task.parallelism]})
        /\ UNCHANGED <<scans, scanQueue, articles, settings, rss, watchdog,
                       autoScan, history>>

\* One turn of the loop `for (const feed of rssFeeds)`; fetched is <<>> when
\* parser.parseURL (or extractArticles) throws, <<items>> otherwise.
ParseFeedsFeedOf(inv, fetched) ==
    LET feed == Head(inv.rssFeeds)
        next == [inv EXCEPT !.rssFeeds = Tail(@)]
    IN  /\ inv.pc = "feeds" /\ inv.rssFeeds # <<>>
        /\ IF ~feed.xmlUrl
           THEN /\ running' = SetToBag({next})
                /\ UNCHANGED rss
           ELSE IF fetched # <<>>
           THEN /\ running' = SetToBag({[next EXCEPT
                       !.articles = @ \o guidsOf(extractArticles(
                                             fetched[1], DEFAULT_DAYS_BACK, 0)),
                       !.successCount = @ + 1]})
                /\ rss' = updateFeedStatus(rss, feed.id, TRUE, "")
           ELSE /\ running' = SetToBag({[next EXCEPT !.failCount = @ + 1]})
                /\ rss' = updateFeedStatus(rss, feed.id, FALSE, "timeout")
        /\ UNCHANGED <<scans, scanQueue, articles, settings, scheduled,
                       watchdog, autoScan, history>>

ParseFeedsFeed ==
    \E inv \in BagToSet(running),
       fetched \in {<<>>} \cup {<<items>> : items \in FeedData} :
        ParseFeedsFeedOf(inv, fetched)

\* After the loop: runMutation(bulkCreateArticles, {articles}).
ParseFeedsBulkCreate ==
    \E inv \in BagToSet(running) :
        LET created == bulkCreateArticles(articles, inv.articles)
        IN  /\ inv.pc = "feeds" /\ inv.rssFeeds = <<>>
            /\ articles' = created.articles
            /\ running' = SetToBag({[inv EXCEPT
                               !.pc = "createQueue",
                               !.articleIds = created.newArticleIds]})
            /\ UNCHANGED <<scans, scanQueue, settings, rss, scheduled,
                           watchdog, autoScan, history>>

\* deleteRss({id}), by a user at any time.
DeleteRss ==
    \E id \in 1..Len(rss) :
        /\ ~rss[id].deleted
        /\ rss' = [rss EXCEPT ![id].deleted = TRUE]
        /\ UNCHANGED <<scans, scanQueue, articles, settings, scheduled,
                       running, watchdog, autoScan, history>>

NextFeeds ==
    \/ ParseFeedsGetFeeds
    \/ ParseFeedsFeed
    \/ ParseFeedsBulkCreate
    \/ ParseFeedsCreateQueue
    \/ ParseFeedsUpdateScanProgress
    \/ ParseFeedsSchedule
    \/ DeleteRss

SpecFeeds == InitFeeds /\ [][NextFeeds]_vars

\* ------------------------------------------------- extractArticles alone
\* extractArticles applied to a feed of up to MaxAlike items of one kind
\* followed by up to MaxOthers items of any kind, a kind being undated (no
\* date field parses), dated daysBack days before now, or dated a day
\* earlier; the link of an item is its place in the feed.  `running` holds
\* the call: its arguments and, once it has returned, its result.
FeedItem(place, now, daysAgo) ==
    [guid |-> "", link |-> ToString(place), daysAgo |-> daysAgo,
     candidates |-> IF daysAgo = <<>> THEN <<blank, unparsable>>
                    ELSE <<unparsable, dateAt(now - daysAgo[1] * MsPerDay)>>]

InitExtract ==
    /\ \E daysBack \in {1, DEFAULT_DAYS_BACK},
          alike \in 0..MaxAlike, others \in 0..MaxOthers :
          LET Ages == {<<>>, <<daysBack>>, <<daysBack + 1>>}
          IN  \E first \in Ages, rest \in [1..others -> Ages] :
                 running = SetToBag({[
                     fn |-> "extractArticles", pc |-> "called",
                     items |-> [i \in 1..(alike + others) |->
                                   FeedItem(i, 0, IF i <= alike THEN first
                                                  ELSE rest[i - alike])],
                     daysBack |-> daysBack, now |-> 0, result |-> <<>>]})
    /\ scans = <<>> /\ scanQueue = <<>> /\ articles = <<>>
    /\ settings = [lastRunAt |-> FALSE] /\ rss = <<>>
    /\ scheduled = EmptyBag /\ watchdog = <<>> /\ autoScan = "idle"
    /\ history = <<>>

CallExtractArticles ==
    \E call \in BagToSet(running) :
        /\ call.pc = "called"
        /\ running' = SetToBag({[call EXCEPT
               !.pc = "returned",
               !.result = extractArticles(call.items, call.daysBack,
                                          call.now)]})
        /\ UNCHANGED <<scans, scanQueue, articles, settings, rss, scheduled,
                       watchdog, autoScan, history>>

SpecExtract == InitExtract /\ [][CallExtractArticles]_vars

\* ------------------------------------------------- the end of parseFeeds
\* parseFeeds of a first scan from the return of bulkCreateArticles on, for
\* any number of new articles up to MaxNew and any parallelism argument,
\* absent (<<>>) or up to MaxParallelismArg; the processors it schedules
\* are not dispatched here.

\* const parallelism = args.parallelism ?? DEFAULT_PARALLELISM
parallelismOrDefault(arg) ==
    IF arg = <<>> THEN DEFAULT_PARALLELISM ELSE arg[1]

InitLaunch ==
    /\ \E arg \in {<<>>} \cup {<<p>> : p \in 1..MaxParallelismArg},
          n \in 0..MaxNew :
          /\ articles = [a \in 1..n |->
                            [guid |-> a, status |-> ArticleStatus.PENDING,
                             extractedContent |-> FALSE, score |-> FALSE,
                             taken |-> 0, marked |-> 0]]
          /\ running = SetToBag({[fn |-> "parseFeeds", scanId |-> 1,
                                  pc |-> "createQueue",
                                  articleIds |-> [a \in 1..n |-> a],
                                  nextArticleId |-> NoArticle,
                                  parallelism |-> parallelismOrDefault(arg),
                                  args |-> [parallelism |-> arg]]})
    /\ scans = <<NewScan>> /\ history = <<NoHistory>>
    /\ scanQueue = <<>> /\ settings = [lastRunAt |-> FALSE] /\ rss = <<>>
    /\ scheduled = EmptyBag /\ watchdog = <<>> /\ autoScan = "idle"

NextLaunch ==
    \/ ParseFeedsCreateQueue
    \/ ParseFeedsUpdateScanProgress
    \/ ParseFeedsSchedule

SpecLaunch == InitLaunch /\ [][NextLaunch]_vars

\* The same for every number queueScan accepts as parallelism
\* (v.optional(v.number()), unchecked): zero and a negative number too.
InitLaunchAny ==
    /\ \E arg \in {<<>>} \cup {<<p>> : p \in (0 - 1)..MaxParallelismArg},
          n \in 0..MaxNew :
          /\ articles = [a \in 1..n |->
                            [guid |-> a, status |-> ArticleStatus.PENDING,
                             extractedContent |-> FALSE, score |-> FALSE,
                             taken |-> 0, marked |-> 0]]
          /\ running = SetToBag({[fn |-> "parseFeeds", scanId |-> 1,
                                  pc |-> "createQueue",
                                  articleIds |-> [a \in 1..n |-> a],
                                  nextArticleId |-> NoArticle,
                                  parallelism |-> parallelismOrDefault(arg),
                                  args |-> [parallelism |-> arg]]})
    /\ scans = <<NewScan>> /\ history = <<NoHistory>>
    /\ scanQueue = <<>> /\ settings = [lastRunAt |-> FALSE] /\ rss = <<>>
    /\ scheduled = EmptyBag /\ watchdog = <<>> /\ autoScan = "idle"

SpecLaunchAny == InitLaunchAny /\ [][NextLaunch]_vars

\* ------------------------------------------------------ one worker chain
\* The scan of SpecScan when auto-scan is disabled and every caller of
\* queueScan passes parallelism 1: parseFeeds starts a single worker chain.
Serial == [Deep EXCEPT !.parallelism = 1]

NextSerial ==
    \/ QueueScan(Serial)
    \/ CancelScan(Serial)
    \/ ParseFeedsIngest(Serial)
    \/ ParseFeedsCreateQueue
    \/ ParseFeedsUpdateScanProgress
    \/ ParseFeedsSchedule
    \/ ProcessNextArticlePop
    \/ ProcessNextArticleComplete
    \/ ProcessNextArticleMark
    \/ ProcessNextArticleExtract
    \/ AnalyzeArticle
    \/ WatchdogStart
    \/ WatchdogVisit(Serial)

SpecSerial == Init /\ [][NextSerial]_vars

\* The scan of SpecSerial when the watchdog re-launches nothing: a single
\* worker chain from parseFeeds to the end of the scan.
OneChain == [Deep EXCEPT !.parallelism = 1, !.launches = 0]

NextOneChain ==
    \/ QueueScan(OneChain)
    \/ CancelScan(OneChain)
    \/ ParseFeedsIngest(OneChain)
    \/ ParseFeedsCreateQueue
    \/ ParseFeedsUpdateScanProgress
    \/ ParseFeedsSchedule
    \/ ProcessNextArticlePop
    \/ ProcessNextArticleComplete
    \/ ProcessNextArticleMark
    \/ ProcessNextArticleExtract
    \/ AnalyzeArticle
    \/ WatchdogStart
    \/ WatchdogVisit(OneChain)

SpecOneChain == Init /\ [][NextOneChain]_vars

\* ------------------------------------------- a queue wrongly marked completed
\* The pipeline of one scan, one worker chain, when something outside the
\* pipeline calls updateQueueStatus(queueId, 'completed') on a queue that
\* still holds items: the contradiction the watchdog's first repair looks
\* for.  The watchdog may launch up to MaxRepairLaunches processors.
Repair == [Deep EXCEPT !.parallelism = 1, !.launches = MaxRepairLaunches]

MarkQueueCompleted ==
    /\ \E queueId \in QueueIds(scanQueue) :
          /\ scanQueue[queueId].list # <<>>
          /\ scanQueue[queueId].status # ScanQueueStatus.COMPLETED
          /\ scanQueue' = updateQueueStatus(scanQueue, queueId,
                                            ScanQueueStatus.COMPLETED)
    /\ UNCHANGED <<scans, articles, settings, rss, scheduled, running,
                   watchdog, autoScan, history>>

NextRepair ==
    \/ QueueScan(Repair)
    \/ ParseFeedsIngest(Repair)
    \/ ParseFeedsCreateQueue
    \/ ParseFeedsUpdateScanProgress
    \/ ParseFeedsSchedule
    \/ ProcessNextArticlePop
    \/ ProcessNextArticleComplete
    \/ ProcessNextArticleMark
    \/ ProcessNextArticleExtract
    \/ AnalyzeArticle
    \/ WatchdogStart
    \/ WatchdogVisit(Repair)
    \/ MarkQueueCompleted

SpecRepair == Init /\ [][NextRepair]_vars

\* ---------------------------------------------- checkAndTriggerScan alone
\* checkAndTriggerScan with every early return, step by step, next to
\* queueScan and cancelScan.  autoScan holds the one run of the cron with
\* what its queries read: pc is "idle" before the first run, "returned"
\* after a run.  The settings other than lastRunAt and the feeds are what
\* the settings page and the feed page last wrote: any value at the read.
Auto == [Wide EXCEPT !.scans = MaxAutoScans]

ConfiguredIntervals == {<<>>, <<DEFAULT_INTERVAL_MINUTES - 1>>}

\* const interval = intervalMinutes ?? 240
intervalOrDefault(intervalMinutes) ==
    IF intervalMinutes = <<>> THEN DEFAULT_INTERVAL_MINUTES
    ELSE intervalMinutes[1]

\* Mutant: the run goes on when a scan is running.
reasonNotTriggeredIgnoresRunning(read) ==
    IF ~read.enabled THEN "Auto-scan is disabled"
    ELSE IF ~intervalElapsed(read.lastRunAt, read.elapsedMinutes,
                             intervalOrDefault(read.intervalMinutes))
    THEN "Interval not elapsed"
    ELSE IF read.feedCount = 0 THEN "No RSS feeds available"
    ELSE ""

\* The early returns of checkAndTriggerScan, in the order of the code: the
\* reason returned with triggered: false, "" when it goes on to trigger.
reasonNotTriggered(read) ==
    IF ~read.enabled THEN "Auto-scan is disabled"
    ELSE IF read.runningScan # NoScan THEN "A scan is already running"
    ELSE IF ~intervalElapsed(read.lastRunAt, read.elapsedMinutes,
                             intervalOrDefault(read.intervalMinutes))
    THEN "Interval not elapsed"
    ELSE IF read.feedCount = 0 THEN "No RSS feeds available"
    ELSE ""

CheckAndTriggerScanRead ==
    \E enabled \in BOOLEAN, intervalMinutes \in ConfiguredIntervals,
       elapsedMinutes \in (DEFAULT_INTERVAL_MINUTES - 2)
                               ..DEFAULT_INTERVAL_MINUTES,
       feedCount \in 0..1 :
        LET read == [enabled |-> enabled,
                     runningScan |-> getRunningScan(scans),
                     intervalMinutes |-> intervalMinutes,
                     lastRunAt |-> settings.lastRunAt,
                     elapsedMinutes |-> elapsedMinutes,
                     feedCount |-> feedCount]
        IN  /\ autoScan.pc \in {"idle", "returned"}
            /\ autoScan' =
                  [pc |-> IF reasonNotTriggered(read) = ""
                          THEN "setLastRunAt" ELSE "returned",
                   triggered |-> FALSE, read |-> read]
            /\ UNCHANGED <<scans, scanQueue, articles, settings, rss,
                           scheduled, running, watchdog, history>>

\* setSettingInternal('autoScan.lastRunAt', now)
CheckAndTriggerScanSetLastRunAt ==
    /\ autoScan.pc = "setLastRunAt"
    /\ settings' = [settings EXCEPT !.lastRunAt = TRUE]
    /\ autoScan' = [autoScan EXCEPT !.pc = "triggerAutoScan"]
    /\ UNCHANGED <<scans, scanQueue, articles, rss, scheduled, running,
                   watchdog, history>>

\* runMutation(triggerAutoScan), then return {triggered: true}
CheckAndTriggerScanTrigger ==
    /\ autoScan.pc = "triggerAutoScan"
    /\ Len(scans) < Auto.scans
    /\ triggerAutoScan(DEFAULT_PARALLELISM)
    /\ autoScan' = [autoScan EXCEPT !.pc = "returned", !.triggered = TRUE]
    /\ UNCHANGED <<scanQueue, articles, settings, rss, running, watchdog>>

InitAuto ==
    /\ scans = <<>> /\ scanQueue = <<>> /\ articles = <<>>
    /\ settings = [lastRunAt |-> FALSE] /\ rss = <<>>
    /\ scheduled = EmptyBag /\ running = EmptyBag /\ watchdog = <<>>
    /\ history = <<>>
    /\ autoScan = [pc |-> "idle", triggered |-> FALSE,
                   read |-> [enabled |-> FALSE, runningScan |-> NoScan,
                             intervalMinutes |-> <<>>, lastRunAt |-> FALSE,
                             elapsedMinutes |-> 0, feedCount |-> 0]]

NextAuto ==
    \/ CheckAndTriggerScanRead
    \/ CheckAndTriggerScanSetLastRunAt
    \/ CheckAndTriggerScanTrigger
    \/ QueueScan(Auto)
    \/ CancelScan(Auto)

SpecAuto == InitAuto /\ [][NextAuto]_vars

\* ------------------------------------------------------- deleted articles
\* The pipeline of one scan while the articles page deletes articles
\* (deleteArticle, bulkDeleteArticles).  Document ids are never reused: a
\* deleted article keeps its place in the sequence as a Missing document,
\* which no guid lookup finds.  ctx.db.patch of a missing document throws;
\* an action whose runMutation throws outside a try block, or inside its
\* catch block, ends there.  Here the steps of the workers are taken apart
\* at each read or write of the article.
NoGuid == 0
Missing == "deleted"

exists(A, articleId) == A[articleId].status # Missing

\* deleteArticle({articleId}): ctx.db.delete
deleteArticle(A, articleId) ==
    [A EXCEPT ![articleId].guid = NoGuid, ![articleId].status = Missing,
              ![articleId].extractedContent = FALSE,
              ![articleId].score = FALSE]

DeleteArticle ==
    /\ \E articleId \in ArticleIds(articles) :
          /\ exists(articles, articleId)
          /\ articles' = deleteArticle(articles, articleId)
    /\ UNCHANGED <<scans, scanQueue, settings, rss, scheduled, running,
                   watchdog, autoScan, history>>

\* processNextArticle, an id popped: getArticleByIdInternal; null: the next
\* processNextArticle is scheduled ('skipped').
ProcessNextArticleGetArticle ==
    \E inv \in BagToSet(running) :
        /\ inv.fn = "processNextArticle" /\ inv.pc = "popped"
        /\ inv.nextArticleId # NoArticle
        /\ IF exists(articles, inv.nextArticleId)
           THEN /\ running' = Put(Take(running, inv),
                                  [inv EXCEPT !.pc = "mark"])
                /\ UNCHANGED scheduled
           ELSE /\ running' = Take(running, inv)
                /\ scheduled' = Put(scheduled,
                                    processNextArticleTask(inv.scanId))
        /\ UNCHANGED <<scans, scanQueue, articles, settings, rss, watchdog,
                       autoScan, history>>

\* processNextArticle: updateArticleStatus(processing), before the try block.
ProcessNextArticleMarkProcessing ==
    \E inv \in BagToSet(running) :
        /\ inv.fn = "processNextArticle" /\ inv.pc = "mark"
        /\ IF exists(articles, inv.nextArticleId)
           THEN /\ articles' =
                       [updateArticleStatus(articles, inv.nextArticleId,
                                            ArticleStatus.PROCESSING)
                           EXCEPT ![inv.nextArticleId].marked = @ + 1]
                /\ running' = Put(Take(running, inv),
                                  [inv EXCEPT !.pc = "extract"])
           ELSE /\ running' = Take(running, inv)
                /\ UNCHANGED articles
        /\ UNCHANGED <<scans, scanQueue, settings, rss, scheduled, watchdog,
                       autoScan, history>>

\* The catch block of processNextArticle and of analyzeArticle:
\* updateArticleStatus(failed), then the next processNextArticle is
\* scheduled.
catchBlock(scanId, articleId) ==
    IF exists(articles, articleId)
    THEN /\ articles' = updateArticleStatus(articles, articleId,
                                            ArticleStatus.FAILED)
         /\ scheduled' = Put(scheduled, processNextArticleTask(scanId))
    ELSE UNCHANGED <<articles, scheduled>>

\* processNextArticle, the try block: the extraction, updateArticleContent
\* and the scheduling of analyzeArticle.
ProcessNextArticleTry ==
    \E inv \in BagToSet(running), throws \in BOOLEAN :
        /\ inv.fn = "processNextArticle" /\ inv.pc = "extract"
        /\ IF ~throws /\ exists(articles, inv.nextArticleId)
           THEN /\ articles' = updateArticleContent(articles, inv.nextArticleId)
                /\ scheduled' = Put(scheduled,
                       analyzeArticleTask(inv.scanId, inv.nextArticleId))
           ELSE catchBlock(inv.scanId, inv.nextArticleId)
        /\ running' = Take(running, inv)
        /\ UNCHANGED <<scans, scanQueue, settings, rss, watchdog, autoScan,
                       history>>

\* Dispatch of a scheduled analyzeArticle, up to its getArticleByIdInternal;
\* null: the next processNextArticle is scheduled ('skipped').
AnalyzeArticleGetArticle ==
    \E task \in BagToSet(scheduled) :
        /\ task.fn = "analyzeArticle"
        /\ IF exists(articles, task.articleId)
           THEN /\ scheduled' = Take(scheduled, task)
                /\ running' = Put(running,
                       Invocation("analyzeArticle", task.scanId, "analyze",
                                  <<>>, task.articleId, 0))
           ELSE /\ scheduled' = Put(Take(scheduled, task),
                                    processNextArticleTask(task.scanId))
                /\ UNCHANGED running
        /\ UNCHANGED <<scans, scanQueue, articles, settings, rss, watchdog,
                       autoScan, history>>

\* analyzeArticle, the try block: generateText, parseScores and the update of
\* the article.
AnalyzeArticleTry ==
    \E inv \in BagToSet(running),
       generated \in {<<>>} \cup {<<text>> : text \in AnalysisTexts} :
        /\ inv.fn = "analyzeArticle" /\ inv.pc = "analyze"
        /\ IF generated # <<>> /\ exists(articles, inv.nextArticleId)
           THEN /\ articles' =
                       IF parseScores(generated[1]) # <<>>
                       THEN updateArticleAnalysis(articles, inv.nextArticleId,
                                                  ArticleStatus.COMPLETED)
                       ELSE updateArticleStatus(articles, inv.nextArticleId,
                                                ArticleStatus.COMPLETED)
                /\ scheduled' = Put(scheduled,
                                    processNextArticleTask(inv.scanId))
           ELSE catchBlock(inv.scanId, inv.nextArticleId)
        /\ running' = Take(running, inv)
        /\ UNCHANGED <<scans, scanQueue, settings, rss, watchdog, autoScan,
                       history>>

NextDelete ==
    \/ QueueScan(Deep)
    \/ ParseFeedsIngest(Deep)
    \/ ParseFeedsCreateQueue
    \/ ParseFeedsUpdateScanProgress
    \/ ParseFeedsSchedule
    \/ ProcessNextArticlePop
    \/ ProcessNextArticleComplete
    \/ ProcessNextArticleGetArticle
    \/ ProcessNextArticleMarkProcessing
    \/ ProcessNextArticleTry
    \/ AnalyzeArticleGetArticle
    \/ AnalyzeArticleTry
    \/ DeleteArticle

SpecDelete == Init /\ [][NextDelete]_vars

\* ================================================================ claims
NotCompleted(S) == {s \in ScanIds(S) : S[s].status # "completed"}

\* The queue document of a scan (the first one inserted for it), as a set:
\* empty when there is none.
QueueDocOf(Q, scanId) ==
    {q \in 1..Len(Q) : Q[q].scanId = scanId
                       /\ \A r \in 1..(q - 1) : Q[r].scanId # scanId}

ParseFeedsScheduled(bag) ==
    BagCardinality([t \in {x \in BagToSet(bag) : x.fn = "parseFeeds"} |->
                       CopiesIn(t, bag)])

NoDuplicates(seq) == \A i, j \in 1..Len(seq) : i # j => seq[i] # seq[j]

\* C1 (as claimed): in every reachable state at most one scan has a status
\* other than completed.
C1_SingleFlight == Cardinality(NotCompleted(scans)) <= 1

\* C2: a queueScan executed while some scan is not completed inserts no scan
\* document and schedules no parseFeeds: every step that inserts a scan or
\* schedules a parseFeeds, other than the auto-scan's triggerAutoScan,
\* starts from a state in which every scan is completed.
C2_QueueScanRejected ==
    [][(/\ autoScan' = autoScan
        /\ \/ Len(scans') > Len(scans)
           \/ ParseFeedsScheduled(scheduled') > ParseFeedsScheduled(scheduled))
       => NotCompleted(scans) = {}]_vars

\* C2 witness: queueScan has inserted a second scan once the first was
\* completed, and that scan is not completed (the state in which the next
\* queueScan is rejected); the auto-scan never ran.
C2_Witness ==
    /\ Len(scans) = 2
    /\ scans[1].status = "completed"
    /\ scans[2].status # "completed"
    /\ autoScan = "idle" /\ ~settings.lastRunAt

\* C3: the ids returned by popNextArticle for a scan are returned once each;
\* with no cancellation they and the ids still listed are exactly the ids
\* the queue was created with; and once all of them have been returned the
\* list is empty, so that every later call returns null.
C3_PopExactlyOnce ==
    \A s \in ScanIds(scans) :
        /\ NoDuplicates(history[s].popped)
        /\ Range(history[s].popped) \subseteq Range(history[s].created)
        /\ \A q \in QueueDocOf(scanQueue, s) :
              /\ ~history[s].cancelled =>
                    /\ Range(history[s].popped) \cup Range(scanQueue[q].list)
                          = Range(history[s].created)
                    /\ Len(history[s].popped) + Len(scanQueue[q].list)
                          = Len(history[s].created)
              /\ Len(history[s].popped) = Len(history[s].created) =>
                    scanQueue[q].list = <<>>
        /\ \A inv \in BagToSet(running) :
              (inv.fn = "processNextArticle" /\ inv.scanId = s
               /\ inv.nextArticleId # NoArticle)
                  => inv.nextArticleId \in Range(history[s].popped)

\* C3 witness: two processors have drained a queue of two ids between
\* them, and a later call has returned null.
C3_Witness ==
    \E s \in ScanIds(scans) :
        /\ Len(history[s].created) = 2
        /\ history[s].popped = history[s].created
        /\ ~history[s].cancelled
        /\ \E inv \in BagToSet(running) :
              /\ inv.fn = "processNextArticle" /\ inv.scanId = s
              /\ inv.nextArticleId = NoArticle
        /\ \E inv \in BagToSet(running) :
              /\ inv.fn = "processNextArticle" /\ inv.scanId = s
              /\ inv.nextArticleId # NoArticle

\* C4: no article is taken by two processNextArticle invocations, and none
\* is set to processing by two of them, whatever chains parseFeeds and the
\* watchdog launched.
C4_NoDoubleProcessing ==
    \A a \in ArticleIds(articles) :
        articles[a].taken <= 1 /\ articles[a].marked <= 1

\* C4 witness: the watchdog has re-launched a processor beside the chains
\* of parseFeeds, and both articles of the scan have been set to processing.
C4_Witness ==
    \E s \in ScanIds(scans) :
        /\ history[s].watchdogLaunches >= 1
        /\ Len(history[s].created) = 2
        /\ \A a \in Range(history[s].created) : articles[a].marked = 1

\* C5 (as claimed): a queue's list at a later state is a suffix of its list
\* at an earlier one, and whenever the list is empty the status is
\* completed.
C5_QueueMonotone ==
    [][/\ \A q \in QueueIds(scanQueue) :
             IsSuffix(scanQueue'[q].list, scanQueue[q].list)
       /\ \A q \in QueueIds(scanQueue') :
             scanQueue'[q].list = <<>> => scanQueue'[q].status = "completed"
      ]_vars

\* C6: the k-th id popNextArticle returns for a scan is the k-th id of the
\* list its queue was created with.
C6_PopFifo ==
    \A s \in ScanIds(scans) :
        /\ Len(history[s].popped) <= Len(history[s].created)
        /\ \A k \in 1..Len(history[s].popped) :
              history[s].popped[k] = history[s].created[k]

\* C6 witness: two ids have been popped from a queue created with two.
C6_Witness ==
    \E s \in ScanIds(scans) :
        Len(history[s].created) = 2 /\ Len(history[s].popped) = 2

\* C7: what a popNextArticle call returns and leaves behind.  With ids
\* listed: the front id, the rest of the list, status processing if ids
\* remain and completed if not.  With an empty list: null, status completed.
\* With no queue document for the scan: null, and no document is created or
\* modified.  No other queue document changes.
C7_PopContract ==
    [][\A call \in BagToSet(running') :
          call.fn = "popNextArticle" =>
             LET docs == QueueDocOf(scanQueue, call.scanId)
             IN  /\ Len(scanQueue') = Len(scanQueue)
                 /\ \A r \in QueueIds(scanQueue) :
                       r \notin docs => scanQueue'[r] = scanQueue[r]
                 /\ docs = {} => call.nextArticleId = NoArticle
                 /\ \A q \in docs :
                       /\ scanQueue'[q].scanId = scanQueue[q].scanId
                       /\ IF scanQueue[q].list = <<>>
                          THEN /\ call.nextArticleId = NoArticle
                               /\ scanQueue'[q].list = <<>>
                               /\ scanQueue'[q].status = "completed"
                          ELSE /\ call.nextArticleId = Head(scanQueue[q].list)
                               /\ scanQueue'[q].list = Tail(scanQueue[q].list)
                               /\ scanQueue'[q].status =
                                     IF Tail(scanQueue[q].list) = <<>>
                                     THEN "completed" ELSE "processing"
      ]_vars

\* C7 witness: a call has popped the last id of a list of two (the status
\* became completed), while the scan of another call has no queue document.
C7_Witness ==
    /\ \E call \in BagToSet(running), q \in QueueIds(scanQueue) :
          /\ call.fn = "popNextArticle" /\ call.nextArticleId = 2
          /\ scanQueue[q].scanId = call.scanId
          /\ scanQueue[q].list = <<>> /\ scanQueue[q].status = "completed"
    /\ \E s \in 1..MaxScans : QueueDocOf(scanQueue, s) = {}

\* C8 (as claimed): once cancelScan has succeeded on a scan, the scan is
\* completed with completedAt set, its queue (if any) is empty and
\* completed, no popNextArticle for it returns an id and none of its
\* articles is newly set to processing.
C8_CancelStops ==
    [][\A s \in ScanIds(scans) :
          history[s].cancelled =>
             /\ scans'[s].status = "completed"
             /\ scans'[s].completedAt > 0
             /\ \A q \in QueueDocOf(scanQueue', s) :
                   scanQueue'[q].list = <<>> /\ scanQueue'[q].status = "completed"
             /\ history'[s].popped = history[s].popped
             /\ \A a \in ArticleIds(articles) :
                   a \in Range(history[s].created)
                      => articles'[a].marked = articles[a].marked
      ]_vars

\* C9 (as claimed): a scan whose status is completed keeps that status.
C9_CompletedIsTerminal ==
    [][\A s \in ScanIds(scans) :
          scans[s].status = "completed" => scans'[s].status = "completed"]_vars

\* C10 (as claimed): completedAt is assigned once per scan.
C10_CompletedAtOnce ==
    \A s \in ScanIds(scans) : scans[s].completedAt <= 1

\* C11: a cancelScan call on an unknown scan id throws 'Scan not found.',
\* one on a completed scan throws 'Cannot cancel a completed scan.', and
\* such a call modifies no scan, queue or article document.
C11_CancelErrorsChangeNothing ==
    [][\A scanId \in 1..(OneScan + 1) :
          (/\ cancelScan(scanId)
           /\ UNCHANGED <<settings, rss, scheduled, running, watchdog,
                          autoScan>>
           /\ \/ scanId > Len(scans)
              \/ scanId <= Len(scans) /\ scans[scanId].status = "completed")
          => /\ scans' = scans /\ scanQueue' = scanQueue /\ articles' = articles
             /\ cancelScanError(scans, scanId) =
                   IF scanId > Len(scans) THEN "Scan not found."
                   ELSE "Cannot cancel a completed scan."
      ]_vars

\* C11 witness: a scan with a queue and articles was cancelled and is
\* completed, so that a cancelScan on it throws 'Cannot cancel a completed
\* scan.' and one on the next id throws 'Scan not found.'.
C11_Witness ==
    \E s \in ScanIds(scans) :
        /\ history[s].cancelled /\ scans[s].status = "completed"
        /\ QueueDocOf(scanQueue, s) # {} /\ Len(articles) > 0
        /\ cancelScanError(scans, s) = "Cannot cancel a completed scan."
        /\ cancelScanError(scans, Len(scans) + 1) = "Scan not found."

ProcessorsScheduled(bag) ==
    BagCardinality([t \in {x \in BagToSet(bag) : x.fn = "processNextArticle"}
                       |-> CopiesIn(t, bag)])

Finished(status) == status \in {"completed", "failed"}

\* The queue of scan s is empty and, unless the scan was cancelled, every
\* article it was created with is completed or failed.
Drained(s) ==
    /\ \A q \in QueueDocOf(scanQueue, s) : scanQueue[q].list = <<>>
    /\ history[s].cancelled
       \/ \A a \in Range(history[s].created) : Finished(articles[a].status)

\* C12: the step that sets an article to failed (extraction or analysis
\* threw) schedules one more processNextArticle; and from a state with a
\* failed article the queue of every scan drains: it becomes empty, and
\* unless the scan is cancelled every article it held is completed or
\* failed.
C12_FailureContinues ==
    /\ [][\A a \in ArticleIds(articles) :
             (articles[a].status # "failed" /\ articles'[a].status = "failed")
                => ProcessorsScheduled(scheduled')
                      = ProcessorsScheduled(scheduled) + 1]_vars
    /\ \A a \in 1..MaxGuids :
          (a \in ArticleIds(articles) /\ articles[a].status = "failed")
             ~> (\A s \in ScanIds(scans) : Drained(s))

\* C12 witness: the first article of a queue of two failed, and the
\* second, popped after it, is completed.
C12_Witness ==
    \E s \in ScanIds(scans) :
        /\ Len(history[s].created) = 2 /\ ~history[s].cancelled
        /\ history[s].popped = history[s].created
        /\ articles[history[s].created[1]].status = "failed"
        /\ articles[history[s].created[2]].status = "completed"

\* C13: a scan whose ingestion inserted articles and that is not cancelled
\* reaches a state in which its queue is empty, each of these articles is
\* completed or failed, and the scan is completed.
C13_DrainLiveness ==
    \A s \in 1..OneScan :
        (s \in ScanIds(scans) /\ history[s].created # <<>>)
           ~> (/\ s \in ScanIds(scans)
               /\ \/ history[s].cancelled
                  \/ /\ Drained(s)
                     /\ scans[s].status = "completed")

\* C13 witness: a scan with two articles and two processors, not
\* cancelled, is completed with its queue empty and both articles finished.
C13_Witness ==
    \E s \in ScanIds(scans) :
        /\ Len(history[s].created) = 2 /\ ~history[s].cancelled
        /\ Drained(s) /\ scans[s].status = "completed"
        /\ scans[s].totalArticles = <<2>>

\* C14 (as claimed): whenever a scan that was not cancelled and did not time
\* out is completed, every article its queue was created with is completed
\* or failed.
C14_CompletedMeansProcessed ==
    \A s \in ScanIds(scans) :
        (/\ scans[s].status = "completed"
         /\ ~history[s].cancelled
         /\ scans[s].error = "")
            => \A a \in Range(history[s].created) : Finished(articles[a].status)

\* C15: a scan whose parseFeeds found no new article (its queue was created
\* with no id) never has a processNextArticle scheduled or running, and it
\* reaches status completed with totalArticles 0.
C15_EmptyQueueTermination ==
    /\ [](\A s \in ScanIds(scans) :
             (QueueDocOf(scanQueue, s) # {} /\ history[s].created = <<>>)
                => /\ \A task \in BagToSet(scheduled) :
                         ~(task.fn = "processNextArticle" /\ task.scanId = s)
                   /\ \A inv \in BagToSet(running) :
                         ~(inv.fn = "processNextArticle" /\ inv.scanId = s)
                   /\ history[s].popped = <<>>
                   /\ history[s].watchdogLaunches = 0
                   /\ scans[s].totalArticles \in {<<>>, <<0>>})
    /\ \A s \in 1..OneScan :
          (/\ s \in ScanIds(scans)
           /\ QueueDocOf(scanQueue, s) # {} /\ history[s].created = <<>>)
             ~> (/\ s \in ScanIds(scans)
                 /\ scans[s].status = "completed"
                 /\ scans[s].totalArticles = <<0>>)

\* C15 witness: parseFeeds has ended for a scan with no new article; the
\* scan was not cancelled and is completed with totalArticles 0.
C15_Witness ==
    \E s \in ScanIds(scans) :
        /\ QueueDocOf(scanQueue, s) # {} /\ history[s].created = <<>>
        /\ ~history[s].cancelled
        /\ \A inv \in BagToSet(running) : inv.fn # "parseFeeds"
        /\ scans[s].status = "completed" /\ scans[s].totalArticles = <<0>>
        /\ scans[s].completedAt = 1

\* A worker chain of scan s is alive: a processNextArticle or analyzeArticle
\* of the scan is scheduled, or a processNextArticle of it is running.
LiveChain(s) ==
    \/ \E task \in BagToSet(scheduled) :
          task.scanId = s /\ task.fn \in {"processNextArticle", "analyzeArticle"}
    \/ \E inv \in BagToSet(running) :
          inv.scanId = s /\ inv.fn = "processNextArticle"

QueueHoldsItems(s) ==
    \E q \in QueueDocOf(scanQueue, s) : scanQueue[q].list # <<>>

\* C16 (as claimed): the watchdog launches at most one processor for a scan,
\* and its visit of a healthy running scan (a live worker chain, items still
\* queued, however long the scan has run) schedules nothing and changes no
\* scan or queue.
C16_WatchdogIdempotent ==
    [][(watchdog # <<>> /\ watchdog' = Tail(watchdog))
       => LET s == Head(watchdog).scanId
          IN  /\ history'[s].watchdogLaunches <= 1
              /\ (/\ scans[s].status = "running"
                  /\ QueueHoldsItems(s)
                  /\ LiveChain(s))
                 => /\ scheduled' = scheduled
                    /\ scans' = scans
                    /\ scanQueue' = scanQueue
      ]_vars

\* No parseFeeds of scan s is scheduled or running.
ParseFeedsGone(s) ==
    /\ \A task \in BagToSet(scheduled) :
          ~(task.fn = "parseFeeds" /\ task.scanId = s)
    /\ \A inv \in BagToSet(running) :
          ~(inv.fn = "parseFeeds" /\ inv.scanId = s)

\* C17: from a state in which a running scan has no live worker chain left
\* (one ended without a successor) while its queue holds items, and with
\* every later invocation running to its end, the watchdog launches a
\* processNextArticle and the scan reaches completed with its queue empty.
C17_DeadChainRecovered ==
    \A s \in 1..OneScan :
        (/\ s \in ScanIds(scans)
         /\ scans[s].status = "running"
         /\ Range(history[s].died)
               \cap {"processNextArticle", "analyzeArticle"} # {}
         /\ ~CanDie(s)
         /\ QueueHoldsItems(s)
         /\ ~LiveChain(s) /\ ParseFeedsGone(s))
           ~> (/\ s \in ScanIds(scans)
               /\ scans[s].status = "completed"
               /\ ~QueueHoldsItems(s)
               /\ history[s].cancelled \/ history[s].watchdogLaunches >= 1)

\* C17 witness: the only chain of a scan ended early with an item left in
\* the queue; the watchdog launched a processor, which drained the queue
\* and completed the scan.
C17_Witness ==
    \E s \in ScanIds(scans) :
        /\ history[s].died = <<"processNextArticle">>
        /\ history[s].watchdogLaunches = 1 /\ ~history[s].cancelled
        /\ Len(history[s].created) = 2
        /\ history[s].popped = history[s].created
        /\ scans[s].status = "completed"

\* C18 (as claimed): a scan whose parseFeeds stopped (before createQueue,
\* before the update to running, or before the first processor was
\* scheduled) reaches status completed.
C18_StalledScanClosed ==
    \A s \in 1..OneScan :
        (s \in ScanIds(scans) /\ "parseFeeds" \in Range(history[s].died))
           ~> (s \in ScanIds(scans) /\ scans[s].status = "completed")

TimedOut(scan) ==
    /\ scan.status = "completed"
    /\ scan.error = "Scan timed out during initialization"

\* C19: a watchdog visit, minutesElapsed after the scan's creation, of a
\* non-completed scan with no queue document sets status completed and
\* error 'Scan timed out during initialization' if and only if the scan is
\* initializing and minutesElapsed > 5, and otherwise leaves the scan as it
\* is; a visit of a scan that has a queue changes no scan.
C19_InitializationTimeout ==
    [][\A minutesElapsed \in ElapsedMarks :
          WatchdogVisitAt(Deep, minutesElapsed)
             => LET s == Head(watchdog).scanId
                IN  /\ (QueueDocOf(scanQueue, s) = {}
                        /\ scans[s].status # "completed")
                          => /\ TimedOut(scans'[s])
                                <=> (scans[s].status = "initializing"
                                     /\ minutesElapsed > 5)
                             /\ ~TimedOut(scans'[s]) => scans' = scans
                    /\ QueueDocOf(scanQueue, s) # {} => scans' = scans
      ]_vars

\* C19 witness: a scan that was never cancelled and has no queue was timed
\* out by the watchdog.
C19_Witness ==
    \E s \in ScanIds(scans) :
        /\ TimedOut(scans[s]) /\ scans[s].completedAt = 1
        /\ QueueDocOf(scanQueue, s) = {}
        /\ ~history[s].cancelled

\* Every guid of the items is the guid of a stored article.
AllPresent(items) ==
    \A i \in 1..Len(items) :
        \E a \in ArticleIds(articles) : articles[a].guid = items[i]

\* C20: an ingestion whose items all carry guids already stored (the same
\* feed content ingested again) inserts no article, modifies none and
\* hands on an empty id list; and the totalArticles parseFeeds writes for
\* a scan is the length of that list, 0 for such a scan.
C20_DedupIdempotent ==
    [][/\ \A task \in BagToSet(scheduled), items \in FeedItems(Wide) :
             (ParseFeedsIngestOf(task, items) /\ AllPresent(items))
                => /\ articles' = articles
                   /\ \E inv \in BagToSet(running') :
                         /\ inv.fn = "parseFeeds" /\ inv.scanId = task.scanId
                         /\ inv.pc = "createQueue" /\ inv.articleIds = <<>>
       /\ \A s \in ScanIds(scans) :
             scans'[s].totalArticles # scans[s].totalArticles
                => \E inv \in BagToSet(running) :
                      /\ inv.fn = "parseFeeds" /\ inv.scanId = s
                      /\ scans'[s].totalArticles = <<Len(inv.articleIds)>>
      ]_vars

\* C20 witness: the first scan ingested an article; the second scan met the
\* same guid, inserted nothing and has totalArticles 0.
C20_Witness ==
    /\ Len(scans) = 2 /\ Len(articles) = 1
    /\ scans[1].totalArticles = <<1>> /\ history[1].created = <<1>>
    /\ scans[2].totalArticles = <<0>> /\ history[2].created = <<>>
    /\ QueueDocOf(scanQueue, 2) # {}

\* C21: in every reachable state no two article documents have the same
\* guid, whatever the feeds held: a guid repeated inside one batch, a guid
\* already stored by an earlier ingestion, a guid taken from the link, and
\* the empty guid of items with neither guid nor link.
C21_GuidUnique ==
    \A a, b \in ArticleIds(articles) :
        a # b => articles[a].guid # articles[b].guid

\* C21 witness: the second bulkCreateArticles has returned; its batch held one guid
\* twice and a guid the first ingestion had stored, and the table holds an
\* article with the empty guid and one whose guid is a link.
C21_Witness ==
    \E inv \in BagToSet(running) :
        /\ inv.fn = "parseFeeds" /\ inv.pc = "createQueue" /\ inv.scanId = 2
        /\ ~NoDuplicates(inv.articles)
        /\ \E i \in 1..Len(inv.articles), a \in ArticleIds(articles) :
              /\ articles[a].guid = inv.articles[i]
              /\ a \notin Range(inv.articleIds)
        /\ \E a, b \in ArticleIds(articles) :
              articles[a].guid = "" /\ articles[b].guid = "l1"

\* The place of the first item with this guid.
FirstAt(items, guid) ==
    CHOOSE i \in 1..Len(items) :
        items[i] = guid /\ \A j \in 1..(i - 1) : items[j] # guid

\* C22: bulkCreateArticles leaves the stored articles as they are and hands
\* on exactly the ids it inserted, one per guid not stored before, in the
\* order in which the feeds yielded these guids; the queue parseFeeds then
\* creates holds this list; and totalArticles is the length of the queue's
\* list, processedArticles 0.
C22_QueueContents ==
    [][/\ \A inv \in BagToSet(running) :
             (inv.pc = "feeds" /\ articles' # articles)
                => LET n == Len(articles)
                       k == Len(articles') - n
                       stored == {articles[a].guid : a \in ArticleIds(articles)}
                   IN  /\ k > 0
                       /\ \A a \in ArticleIds(articles) :
                             articles'[a] = articles[a]
                       /\ {articles'[n + i].guid : i \in 1..k} =
                              Range(inv.articles) \ stored
                       /\ \A i, j \in 1..k :
                             i < j => FirstAt(inv.articles, articles'[n + i].guid)
                                      < FirstAt(inv.articles,
                                                articles'[n + j].guid)
                       /\ \A next \in BagToSet(running') :
                             next.articleIds = [i \in 1..k |-> n + i]
       /\ \A inv \in BagToSet(running) :
             (inv.pc = "feeds" /\ inv.rssFeeds = <<>> /\ running' # running
              /\ articles' = articles)
                => /\ Range(inv.articles) \subseteq
                          {articles[a].guid : a \in ArticleIds(articles)}
                   /\ \A next \in BagToSet(running') : next.articleIds = <<>>
       /\ Len(scanQueue') > Len(scanQueue)
             => \E inv \in BagToSet(running) :
                   scanQueue' = Append(scanQueue,
                       [scanId |-> inv.scanId, list |-> inv.articleIds,
                        status |-> "processing"])
       /\ \A s \in ScanIds(scans) :
             scans'[s].totalArticles # scans[s].totalArticles
                => \E q \in QueueDocOf(scanQueue, s) :
                      /\ scans'[s].totalArticles = <<Len(scanQueue[q].list)>>
                      /\ scans'[s].processedArticles = <<0>>
      ]_vars

\* C22 witness: the second scan's feeds yielded a guid the first scan had
\* stored and two new ones; its queue holds the two new ids and its
\* totalArticles is 2.
C22_Witness ==
    \E inv \in BagToSet(running), q \in QueueDocOf(scanQueue, 2) :
        /\ inv.scanId = 2 /\ inv.pc = "schedule"
        /\ Len(inv.articleIds) = 2
        /\ scanQueue[q].list = inv.articleIds
        /\ \E i \in 1..Len(inv.articles), a \in ArticleIds(articles) :
              /\ articles[a].guid = inv.articles[i]
              /\ a \notin Range(inv.articleIds)
        /\ scans[2].totalArticles = <<2>>
        /\ scans[2].processedArticles = <<0>>

\* C23: a turn of the feed loop whose fetch or parse throws (the catch block
\* counts it in failCount, the try block a success in successCount) raises that
\* feed's failCount by exactly one (from 0 when unset) and sets its
\* lastError; a turn that succeeds sets failCount to 0 and clears lastError;
\* either way no other feed document, no article and no scan changes, and
\* the loop goes on with the remaining feeds, keeping what it has collected.
C23_FeedFailureIsolated ==
    [][\A inv \in BagToSet(running), next \in BagToSet(running') :
          (/\ inv.pc = "feeds" /\ inv.rssFeeds # <<>>
           /\ next.successCount + next.failCount
                  > inv.successCount + inv.failCount
           /\ ~rss[Head(inv.rssFeeds).id].deleted)
             => LET id == Head(inv.rssFeeds).id
                    before == IF rss[id].failCount = <<>> THEN 0
                              ELSE rss[id].failCount[1]
                IN  /\ IF next.failCount > inv.failCount
                       THEN /\ rss'[id].failCount = <<before + 1>>
                            /\ rss'[id].lastError # ""
                            /\ next.articles = inv.articles
                       ELSE /\ rss'[id].failCount = <<0>>
                            /\ rss'[id].lastError = ""
                    /\ \A other \in 1..Len(rss) :
                          other # id => rss'[other] = rss[other]
                    /\ articles' = articles /\ scans' = scans
                    /\ next.pc = "feeds"
                    /\ next.rssFeeds = Tail(inv.rssFeeds)
      ]_vars

\* C23 witness: the loop is over; the first feed, which had failed twice,
\* failed again, and the second was then fetched and yielded an article.
C23_Witness ==
    \E inv \in BagToSet(running) :
        /\ inv.pc = "feeds" /\ inv.rssFeeds = <<>> /\ inv.articles # <<>>
        /\ inv.failCount = 1 /\ inv.successCount = 1
        /\ rss[1].failCount = <<3>> /\ rss[1].lastError = "timeout"
        /\ rss[2].failCount = <<0>> /\ rss[2].lastError = ""
        /\ rss[2].lastFetchedAt

\* C24: retryArticle on a failed article leaves it pending with
\* extractedContent and the analysis fields (summary, score, recommendation,
\* videoAngle) unset, and changes no other article; after
\* retryAllFailedArticles no article is failed, each article that was failed
\* is pending with those fields unset, and the others are as they were.
C24_RetryResets ==
    [][/\ \A articleId \in ArticleIds(articles) :
             (RetryArticleOf(articleId)
              /\ articles[articleId].status = "failed")
                => /\ articles'[articleId].status = "pending"
                   /\ ~articles'[articleId].extractedContent
                   /\ ~articles'[articleId].score
                   /\ \A a \in ArticleIds(articles) :
                         a # articleId => articles'[a] = articles[a]
       /\ RetryAllFailedArticles
             => \A a \in ArticleIds(articles) :
                   /\ articles'[a].status # "failed"
                   /\ IF articles[a].status = "failed"
                      THEN /\ articles'[a].status = "pending"
                           /\ ~articles'[a].extractedContent
                           /\ ~articles'[a].score
                      ELSE articles'[a] = articles[a]
      ]_vars

\* C24 witness: two articles were processed, failed and were retried; both
\* are pending again with nothing stored, and none is failed.
C24_Witness ==
    /\ Len(articles) = 2
    /\ \A a \in ArticleIds(articles) :
          /\ articles[a].marked = 1
          /\ articles[a].status = "pending"
          /\ ~articles[a].extractedContent /\ ~articles[a].score

\* C25: extractArticles returns, in feed order, exactly the items that are
\* dated no more than daysBack days before now (an item dated exactly
\* daysBack days ago is in, one dated a day earlier is out) and the undated
\* items among the first UNDATED_ITEM_FALLBACK_LIMIT = 10 items of the feed
\* (the 10th is in, the 11th is out).
C25_RecencyFilter ==
    \A call \in BagToSet(running) :
        (call.fn = "extractArticles" /\ call.pc = "returned")
           => LET included(place) ==
                      IF call.items[place].daysAgo # <<>>
                      THEN call.items[place].daysAgo[1] <= call.daysBack
                      ELSE place <= 10
                  urls == [i \in 1..Len(call.result) |-> call.result[i].url]
              IN  /\ \A place \in 1..Len(call.items) :
                        included(place) <=> ToString(place) \in Range(urls)
                  /\ Len(urls) =
                        Cardinality({place \in 1..Len(call.items) :
                                         included(place)})
                  /\ \A i, j \in 1..Len(urls), p, q \in 1..Len(call.items) :
                        (i < j /\ urls[i] = ToString(p)
                         /\ urls[j] = ToString(q)) => p < q

\* C25 witness: a feed of eleven items, the first eight dated a day before
\* the cutoff, the ninth dated exactly daysBack days ago, the tenth and the
\* eleventh undated; the result is the ninth and the tenth.
C25_Witness ==
    \E call \in BagToSet(running) :
        /\ call.fn = "extractArticles" /\ call.pc = "returned"
        /\ Len(call.items) = 11
        /\ call.items[8].daysAgo = <<call.daysBack + 1>>
        /\ call.items[9].daysAgo = <<call.daysBack>>
        /\ call.items[10].daysAgo = <<>> /\ call.items[11].daysAgo = <<>>
        /\ Len(call.result) = 2
        /\ call.result[1].url = "9" /\ call.result[2].url = "10"

\* C26 (as claimed): the scan's processedArticles counts the articles its
\* workers have processed: for a scan that was not cancelled, the counter is
\* the number of its articles that are completed or failed, and so equals
\* totalArticles once the queue is drained.
C26_ProgressCounter ==
    \A s \in ScanIds(scans) :
        (scans[s].processedArticles # <<>> /\ ~history[s].cancelled)
           => scans[s].processedArticles =
                 <<Cardinality({a \in Range(history[s].created) :
                                    Finished(articles[a].status)})>>

\* C27: when the analysis returns a text in which parseScores finds no
\* {...}, or one JSON.parse rejects, or an object without a string summary
\* or without the four numbers, the article ends completed with no score
\* (not failed) and one more processNextArticle of the scan is scheduled.
C27_UnparsableIsSoft ==
    [][\A task \in BagToSet(scheduled), text \in AnalysisTexts :
          (/\ AnalyzeArticleOf(task, <<text>>)
           /\ text.json # "object" \/ ~text.summary \/ ~text.numbers)
             => /\ articles'[task.articleId].status = "completed"
                /\ ~articles'[task.articleId].score
                /\ CopiesIn(processNextArticleTask(task.scanId), scheduled')
                      = CopiesIn(processNextArticleTask(task.scanId),
                                 scheduled) + 1
      ]_vars

\* C27 witness: an article was extracted and analysed, is completed and has
\* no score, and the next processNextArticle of its scan is scheduled.
C27_Witness ==
    \E a \in ArticleIds(articles), s \in ScanIds(scans) :
        /\ a \in Range(history[s].popped)
        /\ articles[a].status = "completed"
        /\ articles[a].extractedContent /\ ~articles[a].score
        /\ BagIn(processNextArticleTask(s), scheduled)

\* C28: the status of an article changes only from pending to processing,
\* from processing to completed or to failed, and from failed to pending
\* (retry), whatever scans, workers, retries, cancellations and watchdog
\* runs do; and an article is set to processing at most once.
C28_ArticleStatusMachine ==
    [][\A a \in ArticleIds(articles) :
          /\ articles'[a].status # articles[a].status
                => <<articles[a].status, articles'[a].status>> \in
                      {<<"pending", "processing">>,
                       <<"processing", "completed">>,
                       <<"processing", "failed">>,
                       <<"failed", "pending">>}
          /\ articles'[a].marked <= 1
      ]_vars

\* C28 witness: an article was processed by the first scan, failed and was
\* retried; the second scan met its guid again and completed with nothing
\* to do; the article is pending and was set to processing once.
C28_Witness ==
    /\ Len(scans) = 2 /\ Len(articles) = 1
    /\ articles[1].status = "pending" /\ articles[1].marked = 1
    /\ scans[2].status = "completed" /\ scans[2].totalArticles = <<0>>

InFlight(s) ==
    {i \in 1..Len(history[s].popped) :
        articles[history[s].popped[i]].status
            \notin {ArticleStatus.COMPLETED, ArticleStatus.FAILED}}

\* C30 (as claimed): at any time, also after watchdog passes, the number of
\* articles of a scan in flight is at most min(parallelism, totalArticles);
\* every scan here was queued with parallelism Serial.parallelism.
C30_BoundedParallelism ==
    \A s \in 1..Len(scans) :
        scans[s].totalArticles # <<>>
        => Cardinality(InFlight(s))
              <= Min(Serial.parallelism, scans[s].totalArticles[1])


\* The invocation inv ends in this step.
Ends(inv) ==
    /\ BagCardinality(running') < BagCardinality(running)
    /\ CopiesIn(inv, running') < CopiesIn(inv, running)

\* The worker chains of scan s: its processNextArticle and analyzeArticle
\* invocations, scheduled or running.
Chains(s) ==
    LET tasks == {task \in BagToSet(scheduled) :
                     /\ task.scanId = s
                     /\ task.fn \in {"processNextArticle", "analyzeArticle"}}
        invs == {inv \in BagToSet(running) :
                    /\ inv.scanId = s
                    /\ inv.fn \in {"processNextArticle", "analyzeArticle"}}
    IN  BagCardinality([task \in tasks |-> CopiesIn(task, scheduled)])
        + BagCardinality([inv \in invs |-> CopiesIn(inv, running)])

\* This step is a step of a worker of scan s: it dispatches one of its
\* scheduled workers or moves one of its running ones.
WorkerStep(s) ==
    \/ \E task \in BagToSet(scheduled) :
          /\ task.scanId = s
          /\ task.fn \in {"processNextArticle", "analyzeArticle"}
          /\ CopiesIn(task, scheduled') < CopiesIn(task, scheduled)
    \/ \E inv \in BagToSet(running) :
          /\ inv.scanId = s
          /\ inv.fn \in {"processNextArticle", "analyzeArticle"}
          /\ CopiesIn(inv, running') < CopiesIn(inv, running)

\* C31 (as claimed): a processNextArticle invocation that popped an id ends
\* having scheduled exactly one successor (the analyzeArticle of that
\* article or the next processNextArticle), one that popped null ends having
\* scheduled nothing, an analyzeArticle ends having scheduled exactly one
\* processNextArticle, and no step of a worker raises the number of chains
\* of its scan.
C31_ExplicitSuccessor ==
    [][/\ \A inv \in BagToSet(running) :
             (Ends(inv) /\ inv.fn = "processNextArticle")
             => IF inv.nextArticleId = NoArticle
                THEN scheduled' = scheduled
                ELSE \/ scheduled' = Put(scheduled,
                            analyzeArticleTask(inv.scanId, inv.nextArticleId))
                     \/ scheduled' = Put(scheduled,
                            processNextArticleTask(inv.scanId))
       /\ \A inv \in BagToSet(running) :
             (Ends(inv) /\ inv.fn = "analyzeArticle")
             => scheduled' = Put(scheduled, processNextArticleTask(inv.scanId))
       /\ \A task \in BagToSet(scheduled) :
             (/\ task.fn = "analyzeArticle"
              /\ CopiesIn(task, scheduled') < CopiesIn(task, scheduled))
             => \/ /\ scheduled' = Take(scheduled, task)
                   /\ BagCardinality(running') > BagCardinality(running)
                \/ scheduled' = Put(Take(scheduled, task),
                                    processNextArticleTask(task.scanId))
       /\ \A s \in ScanIds(scans) : WorkerStep(s) => Chains(s)' <= Chains(s)
      ]_vars


\* C32: in a scan worked by one chain, a pop that returns an id happens only
\* when every article popped before is completed or failed, so at most one
\* article is in flight; and an article goes through the steps in order: it
\* is marked processing only once popped, has extracted content only once
\* marked, has scores only with extracted content, and is completed or
\* failed only once marked.
C32_ChainOrder ==
    [][\A s \in ScanIds(scans) :
          /\ history'[s].popped # history[s].popped
             => \A i \in 1..Len(history[s].popped) :
                   Finished(articles[history[s].popped[i]].status)
          /\ Cardinality(InFlight(s))' <= 1
          /\ \A a \in ArticleIds(articles') :
                /\ articles'[a].marked <= articles'[a].taken
                /\ articles'[a].extractedContent => articles'[a].marked > 0
                /\ articles'[a].score => articles'[a].extractedContent
                /\ articles'[a].status # ArticleStatus.PENDING
                   => articles'[a].marked > 0
                /\ articles'[a].status = ArticleStatus.COMPLETED
                   => articles'[a].extractedContent
      ]_vars

\* C32 witness: the chain has popped a second article after the first was
\* completed with scores, and the second is in analysis.
C32_Witness ==
    /\ Len(history) = 1 /\ history[1].popped = <<1, 2>>
    /\ articles[1].status = ArticleStatus.COMPLETED /\ articles[1].score
    /\ articles[2].status = ArticleStatus.PROCESSING
    /\ articles[2].extractedContent
    /\ InFlight(1) = {2}


C34_CooperativeCancel ==
    /\ [][/\ \A s \in ScanIds(scans) :
                /\ (~history[s].cancelled /\ history'[s].cancelled)
                   => /\ articles' = articles
                      /\ \A q \in QueueDocOf(scanQueue', s) :
                            scanQueue'[q].list = <<>>
                /\ (/\ history[s].cancelled
                    /\ QueueDocOf(scanQueue, s) # {}
                    /\ \A q \in QueueDocOf(scanQueue, s) :
                          scanQueue[q].list = <<>>)
                   => /\ \A q \in QueueDocOf(scanQueue', s) :
                            scanQueue'[q].list = <<>>
                      /\ history'[s].popped = history[s].popped
          /\ \A inv \in BagToSet(running) :
                (/\ Ends(inv) /\ inv.fn = "processNextArticle"
                 /\ inv.nextArticleId = NoArticle)
                => scheduled' = scheduled
         ]_vars
    /\ \A s \in 1..OneScan, a \in 1..MaxGuids :
          (/\ s \in ScanIds(scans) /\ history[s].cancelled
           /\ a \in ArticleIds(articles) /\ a \in Range(history[s].popped)
           /\ ~Finished(articles[a].status))
          ~> (a \in ArticleIds(articles) /\ Finished(articles[a].status))

\* C34 witness: a scan of two articles was cancelled after the first was
\* popped: the first is completed, the second was taken off the queue by
\* cancelScan and is still pending, and the chain has ended.
C34_Witness ==
    /\ Len(history) = 1 /\ history[1].cancelled
    /\ history[1].created = <<1, 2>> /\ history[1].popped = <<1>>
    /\ articles[1].status = ArticleStatus.COMPLETED
    /\ articles[2].status = ArticleStatus.PENDING /\ articles[2].taken = 0
    /\ \A q \in QueueDocOf(scanQueue, 1) : scanQueue[q].list = <<>>
    /\ scheduled = EmptyBag /\ running = EmptyBag


\* C35: a retryArticle call changes no scan, no queue and no scheduled or
\* running function, and the article it names is in no queue afterwards; on
\* an id that names no article or an article that is not failed it returns
\* success = false and changes nothing at all, on a failed article it
\* returns success = true; retryAllFailedArticles changes no scan and no
\* queue, and no queue holds an article it reset.
C35_RetryLeavesPipeline ==
    [][/\ \A articleId \in 1..(Len(articles) + 1) :
             RetryArticleOf(articleId)
             => /\ scans' = scans /\ scanQueue' = scanQueue
                /\ scheduled' = scheduled /\ running' = running
                /\ IF articleId \in ArticleIds(articles)
                      /\ articles[articleId].status = "failed"
                   THEN /\ retryArticle(articles, articleId).success
                        /\ \A q \in QueueIds(scanQueue') :
                              articleId \notin Range(scanQueue'[q].list)
                   ELSE /\ ~retryArticle(articles, articleId).success
                        /\ vars' = vars
       /\ RetryAllFailedArticles
             => /\ scans' = scans /\ scanQueue' = scanQueue
                /\ scheduled' = scheduled /\ running' = running
                /\ \A a \in ArticleIds(articles), q \in QueueIds(scanQueue') :
                      articles'[a] # articles[a]
                         => a \notin Range(scanQueue'[q].list)
      ]_vars

\* C35 witness: the first article of a running scan failed and was retried
\* (pending again, once set to processing) while the second is still queued:
\* the queue holds the second article only.
C35_Witness ==
    /\ Len(scans) = 1 /\ scans[1].status = "running"
    /\ Len(articles) = 2
    /\ articles[1].marked = 1 /\ articles[1].status = "pending"
    /\ \E q \in QueueDocOf(scanQueue, 1) : scanQueue[q].list = <<2>>


\* What checkAndTriggerScan needs to trigger, of what one run read.
TriggerConditions(read) ==
    /\ read.enabled
    /\ read.runningScan = NoScan
    /\ \/ ~read.lastRunAt
       \/ read.elapsedMinutes >= (IF read.intervalMinutes = <<>> THEN 240
                                  ELSE read.intervalMinutes[1])
    /\ read.feedCount >= 1

\* C36: a run of checkAndTriggerScan goes on to trigger exactly when
\* auto-scan is enabled, its getRunningScan found every scan completed, the
\* configured interval (240 minutes when not configured) has elapsed since
\* lastRunAt or lastRunAt is unset, and at least one feed matches; otherwise
\* it returns triggered: false with no scan created and lastRunAt as it
\* was; lastRunAt is written by a triggering run only, and the scan is
\* created (one scan, initializing) after that write.
C36_AutoScanTrigger ==
    [][/\ (autoScan.pc \in {"idle", "returned"} /\ autoScan' # autoScan)
          => LET read == autoScan'.read
             IN  /\ (read.runningScan = NoScan)
                       = (\A s \in ScanIds(scans) :
                             scans[s].status = "completed")
                 /\ read.lastRunAt = settings.lastRunAt
                 /\ scans' = scans /\ settings' = settings
                 /\ ~autoScan'.triggered
                 /\ autoScan'.pc = (IF TriggerConditions(read)
                                    THEN "setLastRunAt" ELSE "returned")
       /\ settings' # settings
          => /\ autoScan.pc = "setLastRunAt" /\ TriggerConditions(autoScan.read)
             /\ settings'.lastRunAt /\ scans' = scans
       /\ (autoScan' # autoScan /\ autoScan.pc = "triggerAutoScan")
          => /\ TriggerConditions(autoScan.read) /\ settings.lastRunAt
             /\ autoScan'.triggered /\ autoScan'.pc = "returned"
             /\ Len(scans') = Len(scans) + 1
             /\ \A s \in ScanIds(scans) : scans'[s] = scans[s]
             /\ scans'[Len(scans')].status = "initializing"
       /\ (Len(scans') # Len(scans) /\ autoScan' # autoScan)
          => autoScan.pc = "triggerAutoScan"
      ]_vars

\* C36 witness: a run that read lastRunAt set, a configured interval of 239
\* minutes and 239 minutes elapsed has triggered: the second scan exists
\* and the first is completed.
C36_Witness ==
    /\ autoScan.pc = "returned" /\ autoScan.triggered
    /\ autoScan.read.lastRunAt
    /\ autoScan.read.intervalMinutes = <<239>>
    /\ autoScan.read.elapsedMinutes = 239
    /\ Len(scans) = 2 /\ scans[1].status = "completed"
    /\ scans[2].status = "initializing"


C38_CompletedQueueEmpty ==
    \A q \in QueueIds(scanQueue) :
        /\ scanQueue[q].status = "completed" => scanQueue[q].list = <<>>
        /\ ~restartsCompletedQueue(scanQueue[q])

\* C38 witness: a queue created with two ids was popped to the end, with a
\* processor launched by the watchdog on the way: it is completed and empty,
\* and the scan was not cancelled.
C38_Witness ==
    \E s \in ScanIds(scans), q \in QueueIds(scanQueue) :
        /\ scanQueue[q].scanId = s
        /\ Len(history[s].created) = 2 /\ ~history[s].cancelled
        /\ history[s].popped = history[s].created
        /\ history[s].watchdogLaunches = 1
        /\ scanQueue[q].status = "completed" /\ scanQueue[q].list = <<>>


\* C39 (as claimed): once parseFeeds has ended for a scan it set to running
\* with a non-empty queue, at least one processNextArticle of the scan is
\* scheduled, whatever the parallelism argument (absent, positive, zero or
\* negative).
C39_AtLeastOneWorker ==
    \A s \in ScanIds(scans) :
        (/\ running = EmptyBag
         /\ scans[s].status = "running"
         /\ \E q \in QueueDocOf(scanQueue, s) : scanQueue[q].list # <<>>)
        => CopiesIn(processNextArticleTask(s), scheduled) >= 1


\* An article that a retry has reset: pending, though a worker once set it
\* to processing.
Retried(a) == articles[a].status = "pending" /\ articles[a].marked > 0

\* C40: an article reset to pending by a retry stays as it is (pending, not
\* popped again) through every later step, those of later scans included,
\* and is in the list of no queue and among the ids no scan's queue is
\* created with.
C40_RetriedStaysPending ==
    [][\A a \in ArticleIds(articles) :
          Retried(a)
          => /\ articles'[a] = articles[a]
             /\ \A q \in QueueIds(scanQueue') :
                   a \notin Range(scanQueue'[q].list)
             /\ \A s \in ScanIds(scans) :
                   /\ history'[s].popped = history[s].popped
                      \/ a # history'[s].popped[Len(history'[s].popped)]
                   /\ history'[s].created # history[s].created
                      => a \notin Range(history'[s].created)
      ]_vars

\* C40 witness: the article of the first scan failed and was retried; the
\* second scan met its guid again, created an empty queue and is completed;
\* the article is pending and was popped once.
C40_Witness ==
    /\ Len(scans) = 2 /\ Len(articles) = 1
    /\ Retried(1) /\ articles[1].taken = 1
    /\ history[1].created = <<1>> /\ history[2].created = <<>>
    /\ scans[2].totalArticles = <<0>> /\ scans[2].status = "completed"
    /\ \E q \in QueueDocOf(scanQueue, 2) : scanQueue[q].list = <<>>

====
